---- MODULE Spec2Model ----
(***************************************************************************)
(* The flow-diagram cells of codimension: scope cells (scopeitems.py),     *)
(* spacers, badges and connector cells (auxitems.py).  A canvas is a grid  *)
(* of cells addressed by <<column, row>>; every cell holds a reference to  *)
(* the shared settings object and to the syntax node it visualizes.        *)
(*                                                                         *)
(* Python's None is the empty tuple, a present value v is <<v>>.           *)
(* A text is the sequence of the lengths of its lines, so '\n' * n + t is  *)
(* n empty lines followed by the lines of t.                               *)
(***************************************************************************)
EXTENDS Integers, Sequences, FiniteSets, TLC

VARIABLES
    settings,   \* canvas.settings: the shared settings object
    ref,        \* the syntax node the cells of the canvas visualize
    cells,      \* canvas.cells: <<column, row>> -> cell object
    canvas,     \* the fields of the canvas itself and of its parent grid
    scene,      \* the items added to the QGraphicsScene
    last,       \* the last call made on a cell and what it returned or raised
    editor,     \* the text editor wrapper, its skin and the stored zoom
    browser     \* the variables browser of the debugger

vars == <<settings, ref, cells, canvas, scene, last, editor, browser>>

\* ------------------------------------------------------------------ bounds
MaxRadius == 3
FloorWidth == 30
MaxLine == 3
LineLen == 2
MaxShift == 1
MaxBase == 1
MaxRepeat == 2
MaxConns == 2

\* ------------------------------------------------------- program constants
TOP_LEFT == 0
DECLARATION == 1
COMMENT == 2
DOCSTRING == 3

FOR_STATEMENT == 0
WHILE_STATEMENT == 1
TRY_STATEMENT == 2

NORTH == 0
SOUTH == 1
WEST == 2
EAST == 3
CENTER == 4

GENERIC == 100
TOP_IF == 101
BOTTOM_IF == 102

maxsize == 2147483647

\* ----------------------------------------------------------------- helpers
None == <<>>
Some(v) == <<v>>
IsNone(o) == o = <<>>
Val(o) == o[1]

Max(a, b) == IF a >= b THEN a ELSE b
Min(a, b) == IF a <= b THEN a ELSE b
Abs(a) == IF a >= 0 THEN a ELSE 0 - a

RECURSIVE Blank(_)
\* '\n' * n: n line breaks, nothing for n <= 0
Blank(n) == IF n <= 0 THEN <<>> ELSE <<0>> \o Blank(n - 1)

RECURSIVE MaxOf(_)
MaxOf(seq) == IF seq = <<>> THEN 0 ELSE Max(Head(seq), MaxOf(Tail(seq)))

\* A fragment of the source: its line range and its absolute position range
Frag(bl, el) ==
    [beginLine |-> bl, endLine |-> el,
     begin |-> (bl - 1) * LineLen, end |-> el * LineLen - 1]

\* fragment.getLineRange() / fragment.getAbsPosRange()
LineRangeOf(f) == <<f.beginLine, f.endLine>>
AbsPosRangeOf(f) == <<f.begin, f.end>>

\* ---------------------------------------------------------------- settings
MkSettings(radius, minW, hideC, hideD) ==
    [scopeRectRadius |-> radius,
     hCellPadding |-> 4, vCellPadding |-> 5,
     hHeaderPadding |-> 2, vHeaderPadding |-> 1,
     hTextPadding |-> 3, vTextPadding |-> 2,
     hHiddenTextPadding |-> 1, vHiddenTextPadding |-> 0,
     minWidth |-> minW,
     selectPenWidth |-> 3, boxLineWidth |-> 1,
     hSpacer |-> 6, vSpacer |-> 7,
     mainLine |-> 9, openGroupHSpacer |-> 2,
     badgeShift |-> 2, badgeHSpacing |-> 1, badgeVSpacing |-> 1,
     monoCharWidth |-> 2, monoLineHeight |-> 3,
     badgeCharWidth |-> 1, badgeLineHeight |-> 2,
     hidecomments |-> hideC, hidedocstrings |-> hideD,
     hiddenCommentText |-> <<3>>]

SettingsSet ==
    { MkSettings(r, w, hc, hd) :
        r \in {0, MaxRadius}, w \in {0, FloorWidth},
        hc \in BOOLEAN, hd \in BOOLEAN }

\* QFontMetrics.boundingRect(0, 0, maxsize, maxsize, 0, text) of the mono font
boundingRect(s, text) ==
    [w |-> s.monoCharWidth * MaxOf(text), h |-> s.monoLineHeight * Len(text)]

\* CellElement.getBoundingRect(text)
getBoundingRect(s, text) == boundingRect(s, text)

\* ------------------------------------------------------------ syntax nodes
ScopeClasses ==
    {"File", "Function", "Class", "For", "While", "Try", "With", "Decorator",
     "ForElse", "WhileElse", "TryElse", "Except", "Finally"}

\* self.kind as each constructor sets it
KindOf(cls) ==
    CASE cls = "File" -> "FILE_SCOPE"
      [] cls = "Function" -> "FUNC_SCOPE"
      [] cls = "Class" -> "CLASS_SCOPE"
      [] cls = "For" -> "FOR_SCOPE"
      [] cls = "While" -> "WHILE_SCOPE"
      [] cls = "Try" -> "TRY_SCOPE"
      [] cls = "With" -> "WITH_SCOPE"
      [] cls = "Decorator" -> "DECOR_SCOPE"
      [] cls \in {"ForElse", "WhileElse", "TryElse"} -> "ELSE_SCOPE"
      [] cls = "Except" -> "EXCEPT_SCOPE"
      [] cls = "Finally" -> "FINALLY_SCOPE"

\* self.statement of the else scopes
StatementOf(cls) ==
    CASE cls = "ForElse" -> Some(FOR_STATEMENT)
      [] cls = "WhileElse" -> Some(WHILE_STATEMENT)
      [] cls = "TryElse" -> Some(TRY_STATEMENT)
      [] OTHER -> None

\* The text of the badge each render() creates
BadgeLabel(cls) ==
    CASE cls = "File" -> "module"
      [] cls = "Function" -> "def"
      [] cls = "Class" -> "class"
      [] cls = "For" -> "for"
      [] cls = "While" -> "while"
      [] cls = "Try" -> "try"
      [] cls = "With" -> "with"
      [] cls = "Decorator" -> " @ "
      [] cls \in {"ForElse", "WhileElse", "TryElse"} -> "else"
      [] cls = "Except" -> "except"
      [] cls = "Finally" -> "finally"

\* A side comment on lines cb..ce, one display line per source line
CommentAt(cb, ce) ==
    [beginLine |-> cb, endLine |-> ce,
     begin |-> cb * LineLen - 1, end |-> ce * LineLen - 1,
     text |-> [i \in 1..(ce - cb + 1) |-> 3 + i]]

\* A docstring whose body is on line dl, after `lead` lines of leading comment
DocAt(dl, lead) ==
    [beginLine |-> dl - lead, endLine |-> dl,
     begin |-> (dl - lead - 1) * LineLen, end |-> dl * LineLen - 1,
     body |-> Frag(dl, dl),
     text |-> <<5>>]

\* The heading of the scope is on lines 1..he; he = 0: the optional clause
\* (base classes, decorator arguments, except clause) is absent
MkNode(cls, he, com, doc, txt, fileBody, enc, bang) ==
    LET h == Max(he, 1)
        opt == IF he = 0 THEN None ELSE Some(Frag(1, he))
    IN  [hasSideComment |-> cls # "File",
         sideComment |-> com,
         docstring |-> doc,
         body |-> IF cls = "File" THEN fileBody ELSE Some(Frag(1, h)),
         range |-> Frag(1, MaxLine + 1),
         suiteLast |-> Frag(MaxLine + 1, MaxLine + 1),
         name |-> IF cls \in {"Function", "Class", "Decorator"}
                  THEN Some(Frag(1, 1)) ELSE None,
         arguments |-> CASE cls = "Function" -> Some(Frag(1, h))
                         [] cls = "Decorator" -> opt
                         [] OTHER -> None,
         baseClasses |-> IF cls = "Class" THEN opt ELSE None,
         iteration |-> IF cls = "For" THEN Some(Frag(1, h)) ELSE None,
         condition |-> IF cls = "While" THEN Some(Frag(1, h)) ELSE None,
         items |-> IF cls = "With" THEN Some(Frag(1, h)) ELSE None,
         clause |-> IF cls = "Except" THEN opt ELSE None,
         encodingLine |-> enc,
         bangLine |-> bang,
         text |-> txt]

HeadEnds(cls) ==
    CASE cls \in {"Class", "Decorator", "Except"} -> 0..(MaxLine - 1)
      [] cls \in {"Function", "For", "While", "With"} -> 1..(MaxLine - 1)
      [] OTHER -> {1}

Comments ==
    { CommentAt(p[1], p[2]) :
        p \in { q \in (1..(MaxLine - 1)) \X (1..MaxLine) : q[1] <= q[2] } }

HeaderTexts == {<<2>>, <<1, 7>>}

\* The nodes a cell of sub-kind `sub` of a `cls` scope is built for
NodesFor(cls, sub) ==
    CASE cls = "File" /\ sub = TOP_LEFT ->
            { MkNode(cls, 1, None, None, <<2>>, b, None, None) :
                b \in {None, Some(Frag(1, MaxLine))} }
      [] cls = "File" /\ sub = DECLARATION ->
            { MkNode(cls, 1, None, None, t, Some(Frag(1, MaxLine)), e, b) :
                t \in HeaderTexts,
                e \in {None, Some(Frag(2, 2))}, b \in {None, Some(Frag(1, 1))} }
      [] cls # "File" /\ sub = TOP_LEFT ->
            { MkNode(cls, 1, None, None, <<2>>, None, None, None) }
      [] cls # "File" /\ sub = DECLARATION ->
            { MkNode(cls, he, c, None, t, None, None, None) :
                he \in (IF cls = "Except" THEN {0, 1} ELSE {1}),
                c \in {None, Some(CommentAt(1, 1))}, t \in HeaderTexts }
      [] cls # "File" /\ sub = COMMENT ->
            { MkNode(cls, he, Some(c), None, <<2>>, None, None, None) :
                he \in HeadEnds(cls), c \in Comments }
      [] cls \in {"File", "Function", "Class"} /\ sub = DOCSTRING ->
            { MkNode(cls, 1, None, Some(DocAt(2, lead)), <<2>>,
                     Some(Frag(1, MaxLine)), None, None) : lead \in {0, 1} }
      [] OTHER -> {}

\* ------------------------------------------------------------------- cells
\* CellElement.__init__: the geometry is filled by render(), the position
\* by draw()
CellElement(kind, addr) ==
    [kind |-> kind, addr |-> addr,
     width |-> None, height |-> None, minWidth |-> None, minHeight |-> None,
     baseX |-> None, baseY |-> None]

\* ScopeCellElement.__init__ and the constructor of the class `cls`
ScopeCell(cls, addr, subKind) ==
    [cls |-> cls, kind |-> KindOf(cls), statement |-> StatementOf(cls),
     addr |-> addr, subKind |-> subKind,
     width |-> None, height |-> None, minWidth |-> None, minHeight |-> None,
     baseX |-> None, baseY |-> None,
     docstringText |-> None, _headerRect |-> None,
     _sideComment |-> None, _sideCommentRect |-> None,
     _badgeItem |-> None, docBadge |-> None,
     _connector |-> None, _topHalfConnector |-> None,
     hasScene |-> FALSE, sideCommentPath |-> None,
     toolTip |-> None, rect |-> None, navBarUpdate |-> FALSE]

\* SpacerCell.__init__
SpacerCell(kind, addr, width, height) ==
    [CellElement(kind, addr) EXCEPT !.width = width, !.height = height]
        @@ [cls |-> "Spacer"]

VacantCell(addr) == SpacerCell("VACANT", addr, Some(0), Some(0))

VSpacerCell(s, addr, height) ==
    SpacerCell("V_SPACER", addr, Some(0),
               IF IsNone(height) THEN Some(s.vSpacer) ELSE height)

HSpacerCell(s, addr, width) ==
    SpacerCell("H_SPACER", addr,
               IF IsNone(width) THEN Some(s.hSpacer) ELSE width, None)

ScopeHSideEdge(s, addr) ==
    [HSpacerCell(s, addr, Some(s.scopeRectRadius + s.hCellPadding))
        EXCEPT !.kind = "SCOPE_H_SIDE_EDGE"]

ScopeVSideEdge(s, addr) ==
    [VSpacerCell(s, addr, Some(s.scopeRectRadius + s.vCellPadding))
        EXCEPT !.kind = "SCOPE_V_SIDE_EDGE"]

ScopeSpacer(s, addr) ==
    [SpacerCell("SPACER", addr, Some(s.scopeRectRadius + s.hCellPadding),
                Some(s.scopeRectRadius + s.vCellPadding))
        EXCEPT !.kind = "SCOPE_CORNER_EDGE"]

\* ConnectorCell.__init__; hShift is set by the owning grid
ConnectorCell(connections, addr, hShift) ==
    CellElement("CONNECTOR", addr)
        @@ [cls |-> "Connector", subKind |-> GENERIC,
            connections |-> connections, hShift |-> hShift, path |-> None]

\* BadgeItem.__init__
BadgeItem(s, text) ==
    [text |-> text,
     width |-> s.badgeCharWidth * Len(text) + 2 * s.badgeHSpacing,
     height |-> s.badgeLineHeight + 2 * s.badgeVSpacing,
     pos |-> None]

withinHeader_Never(kind, node) == FALSE

\* BadgeItem.withinHeader, for the badge of a cell of kind `kind`
withinHeader(kind, node) ==
    IF kind \in {"ELSE_SCOPE", "FINALLY_SCOPE", "TRY_SCOPE"} THEN TRUE
    ELSE IF kind = "EXCEPT_SCOPE" THEN IsNone(node.clause)
    ELSE FALSE

\* ------------------------------------------------------------ side comment
\* The first and the last heading line the side comment is aligned with:
\* the differences between the _getSideComment of the scope classes.
\* None: the class does no alignment.
SideCommentAnchor(cls, node) ==
    CASE cls \in {"Function"} ->
            Some(<<Val(node.name).beginLine, Val(node.arguments).endLine>>)
      [] cls = "Class" ->
            Some(<<Val(node.name).beginLine,
                   IF IsNone(node.baseClasses) THEN Val(node.name).endLine
                   ELSE Val(node.baseClasses).endLine>>)
      [] cls = "For" ->
            Some(<<Val(node.iteration).beginLine, Val(node.iteration).endLine>>)
      [] cls = "While" ->
            Some(<<Val(node.condition).beginLine, Val(node.condition).endLine>>)
      [] cls = "With" ->
            Some(<<Val(node.items).beginLine, Val(node.items).endLine>>)
      [] cls = "Decorator" ->
            Some(<<Val(node.name).beginLine,
                   IF IsNone(node.arguments) THEN Val(node.name).endLine
                   ELSE Val(node.arguments).endLine>>)
      [] cls = "Except" ->
            IF IsNone(node.clause) THEN None
            ELSE Some(<<Val(node.clause).beginLine, Val(node.clause).endLine>>)
      [] OTHER -> None

PaddedSideComment_NoTail(c, s, node, firstLine, lastLine) ==
    LET sc == Val(node.sideComment)
        linesBefore == IF s.hidecomments THEN 0 ELSE sc.beginLine - firstLine
        text == Blank(linesBefore) \o sc.text
    IN  IF s.hidecomments
        THEN [c EXCEPT !.toolTip = Some(text),
                       !._sideComment = Some(s.hiddenCommentText)]
        ELSE [c EXCEPT !._sideComment = Some(text)]

\* _getSideComment of a class that aligns the comment with the heading
PaddedSideComment(c, s, node, firstLine, lastLine) ==
    LET sc == Val(node.sideComment)
        linesBefore == IF s.hidecomments THEN 0 ELSE sc.beginLine - firstLine
        text == Blank(linesBefore) \o sc.text
        linesAfter == lastLine - sc.endLine
    IN  IF s.hidecomments
        THEN [c EXCEPT !.toolTip = Some(text),
                       !._sideComment = Some(s.hiddenCommentText)]
        ELSE [c EXCEPT !._sideComment =
                Some(IF linesAfter > 0 THEN text \o Blank(linesAfter) ELSE text)]

\* _getSideComment of the try, else and finally scopes, and of an except
\* scope without a clause
PlainSideComment(c, s, node) ==
    LET text == Val(node.sideComment).text
    IN  IF s.hidecomments
        THEN [c EXCEPT !.toolTip = Some(text),
                       !._sideComment = Some(s.hiddenCommentText)]
        ELSE [c EXCEPT !._sideComment = Some(text)]

\* _getSideComment raises: the file scope has no such method, and an absent
\* side comment is dereferenced
SideCommentRaises(c, node) ==
    \/ c.cls = "File"
    \/ IsNone(c._sideComment) /\ IsNone(node.sideComment)

\* self._getSideComment(): the cell with the text cached in _sideComment
_getSideComment(c, s, node) ==
    IF ~IsNone(c._sideComment) THEN c
    ELSE LET anchor == SideCommentAnchor(c.cls, node)
         IN  IF IsNone(anchor) THEN PlainSideComment(c, s, node)
             ELSE PaddedSideComment(c, s, node, Val(anchor)[1], Val(anchor)[2])

\* ScopeCellElement.getDocstringText: the cell with the text cached
getDocstringText(c, s, node) ==
    IF ~IsNone(c.docstringText) THEN c
    ELSE IF s.hidedocstrings
         THEN [c EXCEPT !.toolTip = Some(Val(node.docstring).text),
                        !.docstringText = Some(<<>>)]
         ELSE [c EXCEPT !.docstringText = Some(Val(node.docstring).text)]

\* ------------------------------------------------------------------ render
__renderTopLeft(c, s) ==
    [c EXCEPT !.minHeight = Some(s.scopeRectRadius + s.vCellPadding),
              !.minWidth = Some(s.scopeRectRadius + s.hCellPadding)]

__renderDeclaration_TextOnly(c, s, node, grid) ==
    LET headerRect == getBoundingRect(s, node.text)
        h0 == headerRect.h + 2 * s.vHeaderPadding - s.scopeRectRadius
        w0 == headerRect.w + s.hHeaderPadding - s.scopeRectRadius
        h2 == IF node.hasSideComment
              THEN IF ~IsNone(node.sideComment) THEN h0 + 2 * s.vTextPadding
                   ELSE h0 + s.vTextPadding
              ELSE h0
        w2 == IF node.hasSideComment /\ ~IsNone(node.sideComment)
              THEN w0 + s.hCellPadding ELSE w0 + s.hHeaderPadding
    IN  [c EXCEPT !._headerRect = Some(headerRect),
                  !.minHeight = Some(h2),
                  !.minWidth = Some(Max(w2, s.minWidth))]

__renderDeclaration(c, s, node, grid) ==
    LET badgeItem == grid[<<c.addr[1] - 1, c.addr[2] - 1>>]._badgeItem
        headerRect == getBoundingRect(s, node.text)
        h0 == headerRect.h + 2 * s.vHeaderPadding - s.scopeRectRadius
        w == IF ~IsNone(badgeItem)
             THEN Max(headerRect.w, Val(badgeItem).width) ELSE headerRect.w
        w0 == w + s.hHeaderPadding - s.scopeRectRadius
        w1 == IF ~IsNone(badgeItem) /\ withinHeader(c.kind, node)
              THEN Val(badgeItem).width + s.hHeaderPadding - s.scopeRectRadius
              ELSE w0
        h2 == IF node.hasSideComment
              THEN IF ~IsNone(node.sideComment) THEN h0 + 2 * s.vTextPadding
                   ELSE h0 + s.vTextPadding
              ELSE h0
        w2 == IF node.hasSideComment /\ ~IsNone(node.sideComment)
              THEN w1 + s.hCellPadding ELSE w1 + s.hHeaderPadding
    IN  [c EXCEPT !._headerRect = Some(headerRect),
                  !.minHeight = Some(h2),
                  !.minWidth = Some(Max(w2, s.minWidth))]

__renderComment_TextPaddings(c, s, node) ==
    LET c1 == _getSideComment(c, s, node)
        rect == getBoundingRect(s, Val(c1._sideComment))
    IN  [c1 EXCEPT
            !._sideCommentRect = Some(rect),
            !.minHeight = Some(rect.h +
                2 * (s.vHeaderPadding + s.vTextPadding) - s.scopeRectRadius),
            !.minWidth = Some(s.hCellPadding + s.hTextPadding +
                rect.w + s.hTextPadding +
                s.hHeaderPadding - s.scopeRectRadius)]

__renderComment(c, s, node) ==
    LET c1 == _getSideComment(c, s, node)
        rect == getBoundingRect(s, Val(c1._sideComment))
    IN  IF s.hidecomments
        THEN [c1 EXCEPT
                !._sideCommentRect = Some(rect),
                !.minHeight = Some(rect.h +
                    2 * (s.vHeaderPadding + s.vHiddenTextPadding) -
                    s.scopeRectRadius),
                !.minWidth = Some(s.hCellPadding + s.hHiddenTextPadding +
                    rect.w + s.hHiddenTextPadding +
                    s.hHeaderPadding - s.scopeRectRadius)]
        ELSE [c1 EXCEPT
                !._sideCommentRect = Some(rect),
                !.minHeight = Some(rect.h +
                    2 * (s.vHeaderPadding + s.vTextPadding) -
                    s.scopeRectRadius),
                !.minWidth = Some(s.hCellPadding + s.hTextPadding +
                    rect.w + s.hTextPadding +
                    s.hHeaderPadding - s.scopeRectRadius)]

__renderDocstring(c, s, node) ==
    LET c1 == getDocstringText(c, s, node)
        rect == boundingRect(s, Val(c1.docstringText))
        docBadge == BadgeItem(s, "doc")
    IN  IF ~s.hidedocstrings
        THEN [c1 EXCEPT
                !.minHeight = Some(rect.h + 2 * s.vHeaderPadding),
                !.minWidth = Some(rect.w +
                    2 * (s.hHeaderPadding - s.scopeRectRadius))]
        ELSE [c1 EXCEPT
                !.docBadge = Some(docBadge),
                !.minHeight = Some(docBadge.height +
                    2 * (s.selectPenWidth - 1)),
                !.minWidth = Some(2 * (s.hHeaderPadding - s.scopeRectRadius))]

\* The exception renderCell lets through, "" when there is none
renderRaises(c, node, grid) ==
    CASE c.subKind = DECLARATION ->
            IF <<c.addr[1] - 1, c.addr[2] - 1>> \notin DOMAIN grid
            THEN "IndexError"
            ELSE IF "_badgeItem" \notin
                        DOMAIN grid[<<c.addr[1] - 1, c.addr[2] - 1>>]
            THEN "AttributeError" ELSE ""
      [] c.subKind = COMMENT ->
            IF SideCommentRaises(c, node) THEN "AttributeError" ELSE ""
      [] c.subKind = DOCSTRING ->
            IF IsNone(c.docstringText) /\ IsNone(node.docstring)
            THEN "AttributeError" ELSE ""
      [] OTHER -> ""

\* ScopeCellElement.renderCell: the cell rendered
renderCell(c, s, node, grid) ==
    LET c1 == CASE c.subKind = TOP_LEFT -> __renderTopLeft(c, s)
                [] c.subKind = DECLARATION ->
                        __renderDeclaration(c, s, node, grid)
                [] c.subKind = COMMENT -> __renderComment(c, s, node)
                [] c.subKind = DOCSTRING -> __renderDocstring(c, s, node)
    IN  [c1 EXCEPT !.height = c1.minHeight, !.width = c1.minWidth]

ScopeRender_NoBadge(c, s, node, grid) ==
    IF renderRaises(c, node, grid) # "" THEN c
    ELSE renderCell(c, s, node, grid)

\* render() of the scope classes: the TOP_LEFT cell creates the badge
ScopeRender(c, s, node, grid) ==
    LET c1 == IF c.subKind = TOP_LEFT
              THEN [c EXCEPT !._badgeItem =
                        Some(BadgeItem(s, BadgeLabel(c.cls)))]
              ELSE c
    IN  IF renderRaises(c1, node, grid) # "" THEN c1
        ELSE renderCell(c1, s, node, grid)

\* SpacerCell.render
SpacerRender(c, s) ==
    LET w == IF IsNone(c.width) THEN Some(s.hSpacer) ELSE c.width
        h == IF IsNone(c.height) THEN Some(s.vSpacer) ELSE c.height
    IN  [c EXCEPT !.width = w, !.height = h, !.minWidth = w, !.minHeight = h]

__hasVertical_FirstOnly(connections) ==
    /\ Len(connections) > 0
    /\ \/ NORTH \in {connections[1][1], connections[1][2]}
       \/ SOUTH \in {connections[1][1], connections[1][2]}

\* ConnectorCell.__hasVertical / __hasHorizontal
__hasVertical(connections) ==
    \E i \in 1..Len(connections) :
        NORTH \in {connections[i][1], connections[i][2]} \/
        SOUTH \in {connections[i][1], connections[i][2]}

__hasHorizontal(connections) ==
    \E i \in 1..Len(connections) :
        EAST \in {connections[i][1], connections[i][2]} \/
        WEST \in {connections[i][1], connections[i][2]}

ConnectorRender_Accumulate(c, s) ==
    LET mw == IF __hasVertical(c.connections)
              THEN s.mainLine + s.hCellPadding +
                   c.hShift * 2 * s.openGroupHSpacer
              ELSE 0
        mh == IF __hasHorizontal(c.connections)
              THEN 2 * s.vCellPadding ELSE 0
        w0 == IF IsNone(c.minWidth) THEN 0 ELSE Val(c.minWidth)
        h0 == IF IsNone(c.minHeight) THEN 0 ELSE Val(c.minHeight)
    IN  [c EXCEPT !.minWidth = Some(w0 + mw), !.minHeight = Some(h0 + mh),
                  !.height = Some(h0 + mh), !.width = Some(w0 + mw)]

\* ConnectorCell.render
ConnectorRender(c, s) ==
    LET mw == IF __hasVertical(c.connections)
              THEN s.mainLine + s.hCellPadding +
                   c.hShift * 2 * s.openGroupHSpacer
              ELSE 0
        mh == IF __hasHorizontal(c.connections)
              THEN 2 * s.vCellPadding ELSE 0
    IN  [c EXCEPT !.minWidth = Some(mw), !.minHeight = Some(mh),
                  !.height = Some(mh), !.width = Some(mw)]

\* cell.render() by the class of the cell
RenderOf(c, s, node, grid) ==
    CASE c.cls = "Spacer" -> SpacerRender(c, s)
      [] c.cls = "Connector" -> ConnectorRender(c, s)
      [] OTHER -> ScopeRender(c, s, node, grid)

RaisesOf(c, node, grid) ==
    IF c.cls \in {"Spacer", "Connector"} THEN ""
    ELSE renderRaises(c, node, grid)

Render_WholeGrid(a) ==
    /\ a \in DOMAIN cells
    /\ LET c == RenderOf(cells[a], settings, ref, cells)
           exc == RaisesOf(cells[a], ref, cells)
       IN  /\ cells' = [b \in DOMAIN cells |->
                        IF b = a THEN c
                        ELSE [cells[b] EXCEPT !.height = c.height]]
           /\ last' = [op |-> "render", addr |-> a, arg |-> None,
                       ret |-> IF exc = "" THEN Some(<<Val(c.width), Val(c.height)>>)
                               ELSE None,
                       exc |-> exc,
                       run |-> IF last.op = "render" /\ last.addr = a
                               THEN Min(last.run + 1, MaxRepeat) ELSE 1]
    /\ UNCHANGED <<editor, browser, settings, ref, canvas, scene>>

\* A call of render() on the cell at address a
Render(a) ==
    /\ a \in DOMAIN cells
    /\ LET c == RenderOf(cells[a], settings, ref, cells)
           exc == RaisesOf(cells[a], ref, cells)
       IN  /\ cells' = [cells EXCEPT ![a] = c]
           /\ last' = [op |-> "render", addr |-> a, arg |-> None,
                       ret |-> IF exc = "" THEN Some(<<Val(c.width), Val(c.height)>>)
                               ELSE None,
                       exc |-> exc,
                       run |-> IF last.op = "render" /\ last.addr = a
                               THEN Min(last.run + 1, MaxRepeat) ELSE 1]
    /\ UNCHANGED <<editor, browser, settings, ref, canvas, scene>>

\* ------------------------------------------------------------------ canvas
\* A scene nothing has been added to; navBar: the parent of the scene has
\* the method updateNavigationToolbar
EmptyScene(navBar) == [items |-> {}, navBar |-> navBar]

\* The canvas before its grid has been laid out and placed in a parent grid
UnplacedCanvas ==
    [addr |-> <<0, 0>>, width |-> None, height |-> None,
     minWidth |-> None, minHeight |-> None, baseX |-> None,
     scopeRectangle |-> None, parentCells |-> <<>>]

\* Where the grid of a scope keeps the cell of each sub-kind
SubAddr(sub) ==
    CASE sub = TOP_LEFT -> <<0, 0>>
      [] sub = DECLARATION -> <<1, 1>>
      [] sub = COMMENT -> <<2, 1>>
      [] sub = DOCSTRING -> <<1, 2>>

SubKinds == {TOP_LEFT, DECLARATION, COMMENT, DOCSTRING}

\* The grid of a scope of class cls: the corner cell and the cell of sub
ScopeGrid(cls, sub) ==
    [a \in {SubAddr(TOP_LEFT), SubAddr(sub)} |->
        IF a = SubAddr(TOP_LEFT) THEN ScopeCell(cls, a, TOP_LEFT)
        ELSE ScopeCell(cls, a, sub)]

Anchors == {NORTH, SOUTH, WEST, EAST, CENTER}

RECURSIVE SeqsUpTo(_, _)
\* The non-empty sequences over S of at most n elements
SeqsUpTo(S, n) ==
    IF n = 0 THEN {}
    ELSE {<<x>> : x \in S} \cup
         { <<x>> \o q : x \in S, q \in SeqsUpTo(S, n - 1) }

\* The cells of auxitems.py a grid is filled with, at address a
AuxCells(s, a) ==
    { SpacerCell("SPACER", a, w, h) :
        w \in {None, Some(2)}, h \in {None, Some(3)} }
    \cup { VacantCell(a), ScopeHSideEdge(s, a), ScopeVSideEdge(s, a),
           ScopeSpacer(s, a) }
    \cup { VSpacerCell(s, a, h) : h \in {None, Some(4)} }
    \cup { HSpacerCell(s, a, w) : w \in {None, Some(4)} }
    \cup { ConnectorCell(conns, a, hs) :
            conns \in SeqsUpTo(Anchors \X Anchors, MaxConns),
            hs \in 0..MaxShift }

NoCall == [op |-> "none", addr |-> <<0, 0>>, arg |-> None, ret |-> None,
           exc |-> "", run |-> 0]

\* A scope grid whose cells are constructed and not rendered yet
InitScope ==
    \E cls \in ScopeClasses, sub \in SubKinds :
        \E node \in NodesFor(cls, sub), st \in SettingsSet :
            /\ settings = st
            /\ ref = node
            /\ cells = ScopeGrid(cls, sub)

\* A grid holding one spacer or connector cell
InitAux ==
    \E st \in { MkSettings(r, 0, FALSE, FALSE) : r \in {0, MaxRadius} } :
        \E aux \in AuxCells(st, <<1, 0>>) :
            /\ settings = st
            /\ ref = MkNode("Function", 1, None, None, <<2>>, None, None, None)
            /\ cells = [a \in {<<1, 0>>} |-> aux]

Init ==
    /\ InitScope \/ InitAux
    /\ canvas = UnplacedCanvas
    /\ scene = EmptyScene(TRUE)
    /\ last = NoCall
    /\ editor = None /\ browser = None

Next == \E a \in DOMAIN cells : Render(a)

Spec == Init /\ [][Next]_vars

\* ------------------------------------------------- ranges and distances
\* routines.distance: 0 inside [begin, end], else the gap to the nearer end
distance(val, begin, end) ==
    IF val >= begin /\ val <= end THEN 0
    ELSE Min(Abs(val - begin), Abs(val - end))

Returned(v) == [ret |-> Some(v), exc |-> ""]
Raised(e) == [ret |-> None, exc |-> e]

\* CellElement.getLineRange / getAbsPosRange: the range of the node itself
CellElement_getLineRange(c, node) == Returned(LineRangeOf(node.range))
CellElement_getAbsPosRange(c, node) == Returned(AbsPosRangeOf(node.range))

FileDeclDistance_EncodingOnly(val, enc, bang) ==
    IF ~IsNone(enc) THEN Min(maxsize, distance(val, Val(enc)[1], Val(enc)[2]))
    ELSE maxsize

\* The FILE_SCOPE branch of getDistance / getLineDistance: the nearer of the
\* encoding line and the shebang line, each when present
FileDeclDistance(val, enc, bang) ==
    LET d0 == maxsize
        d1 == IF ~IsNone(enc)
              THEN Min(d0, distance(val, Val(enc)[1], Val(enc)[2])) ELSE d0
        d2 == IF ~IsNone(bang)
              THEN Min(d1, distance(val, Val(bang)[1], Val(bang)[2])) ELSE d1
    IN  d2

OptAbsPosRange(f) == IF IsNone(f) THEN None ELSE Some(AbsPosRangeOf(Val(f)))
OptLineRange(f) == IF IsNone(f) THEN None ELSE Some(LineRangeOf(Val(f)))

\* ScopeCellElement.getDistance
getDistance(c, node, absPos) ==
    IF c.subKind = DOCSTRING THEN
        IF IsNone(node.docstring) THEN Raised("AttributeError")
        ELSE Returned(distance(absPos, Val(node.docstring).begin,
                               Val(node.docstring).end))
    ELSE IF c.subKind = COMMENT THEN
        IF ~node.hasSideComment \/ IsNone(node.sideComment)
        THEN Raised("AttributeError")
        ELSE Returned(distance(absPos, Val(node.sideComment).begin,
                               Val(node.sideComment).end))
    ELSE IF c.subKind = DECLARATION THEN
        IF c.kind = "FILE_SCOPE"
        THEN Returned(FileDeclDistance(absPos,
                                       OptAbsPosRange(node.encodingLine),
                                       OptAbsPosRange(node.bangLine)))
        ELSE Returned(distance(absPos, Val(node.body).begin,
                               Val(node.body).end))
    ELSE Returned(maxsize)

\* ScopeCellElement.getLineDistance
getLineDistance(c, node, line) ==
    IF c.subKind = DOCSTRING THEN
        IF IsNone(node.docstring) THEN Raised("AttributeError")
        ELSE Returned(distance(line, Val(node.docstring).beginLine,
                               Val(node.docstring).endLine))
    ELSE IF c.subKind = COMMENT THEN
        IF ~node.hasSideComment \/ IsNone(node.sideComment)
        THEN Raised("AttributeError")
        ELSE Returned(distance(line, Val(node.sideComment).beginLine,
                               Val(node.sideComment).endLine))
    ELSE IF c.subKind = DECLARATION THEN
        IF c.kind = "FILE_SCOPE"
        THEN Returned(FileDeclDistance(line,
                                       OptLineRange(node.encodingLine),
                                       OptLineRange(node.bangLine)))
        ELSE Returned(distance(line, Val(node.body).beginLine,
                               Val(node.body).endLine))
    ELSE Returned(maxsize)

DocstringBodyRange_Whole(node, lines) ==
    IF IsNone(node.docstring) THEN Raised("AttributeError")
    ELSE Returned(IF lines THEN LineRangeOf(Val(node.docstring))
                  ELSE AbsPosRangeOf(Val(node.docstring)))

\* The DOCSTRING branch of getLineRange / getAbsPosRange
DocstringBodyRange(node, lines) ==
    IF IsNone(node.docstring) THEN Raised("AttributeError")
    ELSE Returned(IF lines THEN LineRangeOf(Val(node.docstring).body)
                  ELSE AbsPosRangeOf(Val(node.docstring).body))

\* The COMMENT branch of getLineRange / getAbsPosRange
SideCommentRange(node, lines) ==
    IF ~node.hasSideComment \/ IsNone(node.sideComment)
    THEN Raised("AttributeError")
    ELSE Returned(IF lines THEN LineRangeOf(Val(node.sideComment))
                  ELSE AbsPosRangeOf(Val(node.sideComment)))

DefaultRange(c, node, lines) ==
    IF lines THEN CellElement_getLineRange(c, node)
    ELSE CellElement_getAbsPosRange(c, node)

FileScopeCell_getRange_NoEmpty(c, node, lines) ==
    IF c.subKind = DOCSTRING THEN DocstringBodyRange(node, lines)
    ELSE DefaultRange(c, node, lines)

\* FileScopeCell.getLineRange (lines) / getAbsPosRange
FileScopeCell_getRange(c, node, lines) ==
    IF c.subKind = TOP_LEFT /\ IsNone(node.body) THEN Returned(<<0, 0>>)
    ELSE IF c.subKind = DOCSTRING THEN DocstringBodyRange(node, lines)
    ELSE DefaultRange(c, node, lines)

\* FunctionScopeCell and ClassScopeCell getLineRange / getAbsPosRange
FunctionScopeCell_getRange(c, node, lines) ==
    IF c.subKind = DOCSTRING THEN DocstringBodyRange(node, lines)
    ELSE IF c.subKind = COMMENT THEN SideCommentRange(node, lines)
    ELSE DefaultRange(c, node, lines)

\* TryScopeCell.getLineRange / getAbsPosRange
TryScopeCell_getRange(c, node, lines) ==
    IF c.subKind = TOP_LEFT
    THEN Returned(IF lines
                  THEN <<Val(node.body).beginLine, node.suiteLast.endLine>>
                  ELSE <<Val(node.body).begin, node.suiteLast.end>>)
    ELSE IF c.subKind = COMMENT THEN SideCommentRange(node, lines)
    ELSE DefaultRange(c, node, lines)

\* getLineRange / getAbsPosRange of the for, while, with, decorator, else,
\* except and finally scopes
LoopScopeCell_getRange(c, node, lines) ==
    IF c.subKind = COMMENT THEN SideCommentRange(node, lines)
    ELSE DefaultRange(c, node, lines)

\* cell.getLineRange() (lines) or cell.getAbsPosRange() by the cell's class
getRange(c, node, lines) ==
    CASE c.cls = "File" -> FileScopeCell_getRange(c, node, lines)
      [] c.cls \in {"Function", "Class"} ->
            FunctionScopeCell_getRange(c, node, lines)
      [] c.cls = "Try" -> TryScopeCell_getRange(c, node, lines)
      [] OTHER -> LoopScopeCell_getRange(c, node, lines)

getLineRange(c, node) == getRange(c, node, TRUE)
getAbsPosRange(c, node) == getRange(c, node, FALSE)

getTopLeftItem_SameRow(c, grid) ==
    IF c.subKind = DECLARATION
    THEN Returned(grid[<<c.addr[1] - 1, c.addr[2]>>])
    ELSE Raised("Exception")

\* ScopeCellElement.getTopLeftItem
getTopLeftItem(c, grid) ==
    IF c.subKind = DECLARATION
    THEN LET column == c.addr[1] - 1
             row == c.addr[2] - 1
         IN  Returned(grid[<<column, row>>])
    ELSE Raised("Exception")

\* --------------------------------------------------- the calls on a cell
Call(op, a, arg, r) ==
    [op |-> op, addr |-> a, arg |-> arg, ret |-> r.ret, exc |-> r.exc,
     run |-> 1]

IsScopeCell(c) == c.cls \in ScopeClasses

Positions == 0..((MaxLine + 1) * LineLen)
Lines == 0..(MaxLine + 2)

GetDistance(a, absPos) ==
    /\ a \in DOMAIN cells /\ IsScopeCell(cells[a])
    /\ last' = Call("getDistance", a, Some(absPos),
                    getDistance(cells[a], ref, absPos))
    /\ UNCHANGED <<editor, browser, settings, ref, cells, canvas, scene>>

GetLineDistance(a, line) ==
    /\ a \in DOMAIN cells /\ IsScopeCell(cells[a])
    /\ last' = Call("getLineDistance", a, Some(line),
                    getLineDistance(cells[a], ref, line))
    /\ UNCHANGED <<editor, browser, settings, ref, cells, canvas, scene>>

GetLineRange(a) ==
    /\ a \in DOMAIN cells /\ IsScopeCell(cells[a])
    /\ last' = Call("getLineRange", a, None, getLineRange(cells[a], ref))
    /\ UNCHANGED <<editor, browser, settings, ref, cells, canvas, scene>>

GetAbsPosRange(a) ==
    /\ a \in DOMAIN cells /\ IsScopeCell(cells[a])
    /\ last' = Call("getAbsPosRange", a, None, getAbsPosRange(cells[a], ref))
    /\ UNCHANGED <<editor, browser, settings, ref, cells, canvas, scene>>

GetTopLeftItem(a) ==
    /\ a \in DOMAIN cells /\ IsScopeCell(cells[a])
    /\ last' = Call("getTopLeftItem", a, None, getTopLeftItem(cells[a], cells))
    /\ UNCHANGED <<editor, browser, settings, ref, cells, canvas, scene>>

Docs == {None, Some(DocAt(2, 0)), Some(DocAt(2, 1))}

\* The nodes of a scope of class cls, with and without comment and docstring
QueryNodes(cls) ==
    CASE cls = "File" ->
            { MkNode(cls, 1, None, d, <<2>>, b, e, bang) :
                d \in Docs, b \in {None, Some(Frag(1, MaxLine))},
                e \in {None, Some(Frag(2, 2))},
                bang \in {None, Some(Frag(1, 1))} }
      [] cls \in {"Function", "Class"} ->
            { MkNode(cls, he, c, d, <<2>>, None, None, None) :
                he \in 1..(MaxLine - 1),
                c \in {None} \cup { Some(x) : x \in Comments }, d \in Docs }
      [] OTHER ->
            { MkNode(cls, he, c, None, <<2>>, None, None, None) :
                he \in 1..(MaxLine - 1),
                c \in {None} \cup { Some(x) : x \in Comments } }

\* The whole grid of a scope: corner, edges, header, comment and docstring
FullScopeGrid(cls, s) ==
    LET addrs == {<<0, 0>>, <<1, 0>>, <<0, 1>>, <<1, 1>>}
                 \cup (IF cls # "File" THEN {<<2, 1>>} ELSE {})
                 \cup (IF cls \in {"File", "Function", "Class"}
                       THEN {<<0, 2>>, <<1, 2>>} ELSE {})
    IN  [a \in addrs |->
            CASE a = <<0, 0>> -> ScopeCell(cls, a, TOP_LEFT)
              [] a = <<1, 0>> -> ScopeHSideEdge(s, a)
              [] a = <<0, 1>> -> ScopeVSideEdge(s, a)
              [] a = <<1, 1>> -> ScopeCell(cls, a, DECLARATION)
              [] a = <<2, 1>> -> ScopeCell(cls, a, COMMENT)
              [] a = <<0, 2>> -> ScopeVSideEdge(s, a)
              [] a = <<1, 2>> -> ScopeCell(cls, a, DOCSTRING)]

InitQuery ==
    /\ settings = MkSettings(MaxRadius, FloorWidth, FALSE, FALSE)
    /\ \E cls \in ScopeClasses :
        \E node \in QueryNodes(cls) :
            /\ ref = node
            /\ cells = FullScopeGrid(cls, settings)
    /\ canvas = UnplacedCanvas
    /\ scene = EmptyScene(TRUE)
    /\ last = NoCall
    /\ editor = None /\ browser = None

NextQuery ==
    \E a \in DOMAIN cells :
        \/ \E absPos \in Positions : GetDistance(a, absPos)
        \/ \E line \in Lines : GetLineDistance(a, line)
        \/ GetLineRange(a)
        \/ GetAbsPosRange(a)
        \/ GetTopLeftItem(a)

SpecQuery == InitQuery /\ [][NextQuery]_vars

\* -------------------------------------------------------------------- draw
\* What draw() puts on the scene is kept in quarters of a pixel: Python's /
\* halves odd sizes, and BadgeItem.moveTo halves the result once more
Px(x) == 4 * x
HalfPx(x) == 2 * x

\* Connector.__init__: the straight line from (x1, y1) to (x2, y2)
Connector(x1, y1, x2, y2) ==
    [x1 |-> x1, y1 |-> y1, x2 |-> x2, y2 |-> y2, penStyle |-> None]

\* The scene with the item added: the cell at `a` itself, a part of it
\* (its badge), or a connector object built with the line `line`
AddItem(scn, item, a, line) ==
    [scn EXCEPT !.items = @ \cup {[item |-> item, of |-> a, line |-> line]}]

\* A draw() in progress: the cell, the scene and the canvas so far, and
\* the exception that ended it ("" while it runs)
Drawing(c, scn, cnv) == [c |-> c, scene |-> scn, canvas |-> cnv, exc |-> ""]
Fail(d, e) == [d EXCEPT !.exc = e]

\* ScopeCellElement.__followLoop
__followLoop(cnv) ==
    IF IsNone(cnv.parentCells) THEN FALSE
    ELSE LET left == <<cnv.addr[1] - 1, cnv.addr[2]>>
             pc == Val(cnv.parentCells)
         IN  IF left \notin DOMAIN pc THEN FALSE
             ELSE /\ pc[left].kind = "VCANVAS"
                  /\ pc[left].firstKind \in
                        {Some("FOR_SCOPE"), Some("WHILE_SCOPE")}

__needConnector_AnyElse(c) ==
    c.kind \in {"FOR_SCOPE", "DECOR_SCOPE", "WHILE_SCOPE", "FUNC_SCOPE",
                "CLASS_SCOPE", "WITH_SCOPE", "FINALLY_SCOPE", "TRY_SCOPE",
                "ELSE_SCOPE"}

__needConnector_NoElse(c) ==
    c.kind \in {"FOR_SCOPE", "DECOR_SCOPE", "WHILE_SCOPE", "FUNC_SCOPE",
                "CLASS_SCOPE", "WITH_SCOPE", "FINALLY_SCOPE", "TRY_SCOPE"}

\* ScopeCellElement.__needConnector
__needConnector(c) ==
    IF c.kind \in {"FOR_SCOPE", "DECOR_SCOPE", "WHILE_SCOPE", "FUNC_SCOPE",
                   "CLASS_SCOPE", "WITH_SCOPE", "FINALLY_SCOPE", "TRY_SCOPE"}
    THEN TRUE
    ELSE IF c.kind = "ELSE_SCOPE" THEN c.statement = Some(TRY_STATEMENT)
    ELSE FALSE

__needTopHalfConnector_ElseOnly(c, cnv) ==
    IF c.kind = "ELSE_SCOPE" /\ ~IsNone(cnv.parentCells)
    THEN LET top == <<cnv.addr[1], cnv.addr[2] - 1>>
             pc == Val(cnv.parentCells)
         IN  /\ top \in DOMAIN pc
             /\ ~IsNone(pc[top].needConnector)
             /\ Val(pc[top].needConnector)
    ELSE FALSE

\* ScopeCellElement.__needTopHalfConnector
__needTopHalfConnector(c, cnv) ==
    IF c.kind \in {"ELSE_SCOPE", "EXCEPT_SCOPE"} /\ ~IsNone(cnv.parentCells)
    THEN LET top == <<cnv.addr[1], cnv.addr[2] - 1>>
             pc == Val(cnv.parentCells)
         IN  /\ top \in DOMAIN pc
             /\ ~IsNone(pc[top].needConnector)
             /\ Val(pc[top].needConnector)
    ELSE FALSE

DrawScopeConnector_Unguarded(d, s, baseX, baseY) ==
    IF d.exc # "" \/ ~__needConnector(d.c) THEN d
    ELSE IF IsNone(d.canvas.height) THEN Fail(d, "TypeError")
    ELSE LET k == Connector(Px(baseX + s.mainLine), Px(baseY),
                            Px(baseX + s.mainLine),
                            Px(baseY + Val(d.canvas.height)))
         IN  [d EXCEPT !.c._connector = Some(k),
                       !.scene = AddItem(@, "Connector", d.c.addr,
                                         <<k.x1, k.y1, k.x2, k.y2>>)]

\* draw() of TOP_LEFT: the connector along the whole scope
DrawScopeConnector(d, s, baseX, baseY) ==
    IF d.exc # "" \/ ~(__needConnector(d.c) /\ IsNone(d.c._connector)) THEN d
    ELSE IF IsNone(d.canvas.height) THEN Fail(d, "TypeError")
    ELSE LET k == Connector(Px(baseX + s.mainLine), Px(baseY),
                            Px(baseX + s.mainLine),
                            Px(baseY + Val(d.canvas.height)))
         IN  [d EXCEPT !.c._connector = Some(k),
                       !.scene = AddItem(@, "Connector", d.c.addr,
                                         <<k.x1, k.y1, k.x2, k.y2>>)]

\* draw() of TOP_LEFT: the connector down to the middle of the scope
DrawTopHalfConnector(d, s, baseX, baseY) ==
    IF d.exc # "" \/ ~(__needTopHalfConnector(d.c, d.canvas)
                        /\ IsNone(d.c._topHalfConnector)) THEN d
    ELSE IF IsNone(d.canvas.height) THEN Fail(d, "TypeError")
    ELSE LET k == Connector(Px(baseX + s.mainLine), Px(baseY),
                            Px(baseX + s.mainLine),
                            Px(baseY) + HalfPx(Val(d.canvas.height)))
         IN  [d EXCEPT !.c._topHalfConnector = Some(k),
                       !.scene = AddItem(@, "Connector", d.c.addr,
                                         <<k.x1, k.y1, k.x2, k.y2>>)]

\* draw() of TOP_LEFT: the rounded rectangle of the scope
DrawScopeRectangle(d, s, baseX, baseY) ==
    LET penWidth == s.selectPenWidth - 1
    IN  IF d.exc # "" THEN d
        ELSE IF IsNone(d.canvas.minWidth) \/ IsNone(d.canvas.minHeight)
        THEN Fail(d, "TypeError")
        ELSE [d EXCEPT
                !.c.rect = Some(<<
                    Px(baseX + s.hCellPadding - penWidth),
                    Px(baseY + s.vCellPadding - penWidth),
                    Px(Val(d.canvas.minWidth) - 2 * s.hCellPadding
                        + 2 * penWidth),
                    Px(Val(d.canvas.minHeight) - 2 * s.vCellPadding
                        + 2 * penWidth)>>),
                !.scene = AddItem(@, "ScopeCell", d.c.addr, None),
                !.canvas.scopeRectangle = Some(d.c.addr)]

\* BadgeItem.moveTo(xPos, yPos), the arguments given in half pixels
moveTo(badge, xHalf, yHalf) ==
    [badge EXCEPT !.pos = Some(<<xHalf, yHalf>>)]

\* draw() of TOP_LEFT: the badge, once render() has made it
DrawBadge(d, s, node, grid, baseX, baseY) ==
    IF d.exc # "" \/ IsNone(d.c._badgeItem) THEN d
    ELSE LET badge == Val(d.c._badgeItem)
             below == <<d.c.addr[1], d.c.addr[2] + 1>>
             xHalf == HalfPx(baseX + s.hCellPadding + s.badgeShift)
         IN  IF withinHeader(d.c.kind, node)
             THEN IF below \notin DOMAIN grid THEN Fail(d, "IndexError")
                  ELSE IF IsNone(grid[below].height) THEN Fail(d, "TypeError")
                  ELSE LET fullHeight == Val(grid[below].height)
                                            + s.scopeRectRadius
                       IN  [d EXCEPT
                              !.c._badgeItem = Some(moveTo(badge, xHalf,
                                  HalfPx(baseY + s.vCellPadding)
                                    + fullHeight - badge.height)),
                              !.scene = AddItem(@, "Badge", d.c.addr, None)]
             ELSE [d EXCEPT
                      !.c._badgeItem = Some(moveTo(badge, xHalf,
                          HalfPx(baseY + s.vCellPadding) - badge.height)),
                      !.scene = AddItem(@, "Badge", d.c.addr, None)]

\* draw() of TOP_LEFT: the dotted connector from the cell to the left
DrawHorizontalConnector(d, s, baseX, baseY) ==
    IF d.exc # "" \/ ~IsNone(d.c._connector) THEN d
    ELSE IF ~(d.c.kind = "EXCEPT_SCOPE"
                \/ (d.c.kind = "ELSE_SCOPE" /\ __followLoop(d.canvas)))
    THEN d
    ELSE IF IsNone(d.canvas.parentCells) THEN Fail(d, "AttributeError")
    ELSE LET left == <<d.canvas.addr[1] - 1, d.canvas.addr[2]>>
             pc == Val(d.canvas.parentCells)
         IN  IF left \notin DOMAIN pc THEN Fail(d, "IndexError")
             ELSE IF IsNone(pc[left].baseX) \/ IsNone(pc[left].minWidth)
             THEN Fail(d, "TypeError")
             ELSE LET k == [Connector(
                                Px(Val(pc[left].baseX) + Val(pc[left].minWidth)
                                    - s.hCellPadding + s.boxLineWidth),
                                Px(baseY + 2 * s.vCellPadding),
                                Px(baseX + s.hCellPadding - s.boxLineWidth),
                                Px(baseY + 2 * s.vCellPadding))
                            EXCEPT !.penStyle = Some("DotLine")]
                  IN  [d EXCEPT !.c._connector = Some(k),
                                !.scene = AddItem(@, "Connector", d.c.addr,
                                            <<k.x1, k.y1, k.x2, k.y2>>)]

\* draw() of TOP_LEFT: the hover events for the navigation bar
DrawNavBar(d) ==
    IF d.exc # "" \/ ~d.scene.navBar THEN d
    ELSE [d EXCEPT !.c.navBarUpdate = TRUE]

DrawTopLeft(d, s, node, grid, baseX, baseY) ==
    DrawNavBar(
     DrawHorizontalConnector(
      DrawBadge(
       DrawScopeRectangle(
        DrawTopHalfConnector(
         DrawScopeConnector(d, s, baseX, baseY),
         s, baseX, baseY),
        s, baseX, baseY),
       s, node, grid, baseX, baseY),
      s, baseX, baseY))

DrawDeclaration(d, s, baseX, baseY) ==
    LET penWidth == s.selectPenWidth - 1
    IN  IF IsNone(d.canvas.minWidth) \/ IsNone(d.c.height)
        THEN Fail(d, "TypeError")
        ELSE [d EXCEPT
                !.c.rect = Some(<<
                    Px(baseX - s.scopeRectRadius - penWidth),
                    Px(baseY - s.scopeRectRadius - penWidth),
                    Px(Val(d.canvas.minWidth) - 2 * s.hCellPadding
                        + 2 * penWidth),
                    Px(Val(d.c.height) + s.scopeRectRadius + penWidth)>>),
                !.scene = AddItem(@, "ScopeCell", d.c.addr, None)]

DrawComment(d, s, baseX, baseY) ==
    LET penWidth == s.selectPenWidth - 1
        canvasTop == baseY - s.scopeRectRadius
        hPad == IF s.hidecomments THEN s.hHiddenTextPadding
                ELSE s.hTextPadding
        vPad == IF s.hidecomments THEN s.vHiddenTextPadding
                ELSE s.vTextPadding
    IN  IF IsNone(d.canvas.baseX) \/ IsNone(d.canvas.minWidth)
            \/ IsNone(d.c.width)
        THEN Fail(d, "TypeError")
        ELSE IF IsNone(d.c._sideCommentRect) THEN Fail(d, "AttributeError")
        ELSE LET movedBaseX == Val(d.canvas.baseX) + Val(d.canvas.minWidth)
                                - Val(d.c.width) - s.scopeRectRadius
                                - s.vHeaderPadding
                 rect == Val(d.c._sideCommentRect)
             IN  [d EXCEPT
                    !.c.sideCommentPath = Some(
                        [hidden |-> s.hidecomments,
                         x |-> Px(movedBaseX + s.hHeaderPadding),
                         y |-> Px(canvasTop + s.vHeaderPadding),
                         w |-> Px(rect.w + 2 * hPad),
                         h |-> Px(rect.h + 2 * vPad)]),
                    !.c.rect = Some(<<
                        Px(movedBaseX + s.hHeaderPadding - penWidth),
                        Px(canvasTop + s.vHeaderPadding - penWidth),
                        Px(rect.w + 2 * hPad + 2 * penWidth),
                        Px(rect.h + 2 * vPad + 2 * penWidth)>>),
                    !.scene = AddItem(@, "ScopeCell", d.c.addr, None)]

DrawDocstring(d, s, baseX, baseY) ==
    LET penWidth == s.selectPenWidth - 1
    IN  IF IsNone(d.canvas.minWidth) \/ IsNone(d.c.height)
        THEN Fail(d, "TypeError")
        ELSE LET d1 == [d EXCEPT
                    !.c.rect = Some(<<
                        Px(baseX - s.scopeRectRadius - penWidth),
                        Px(baseY - penWidth),
                        Px(Val(d.canvas.minWidth) - 2 * s.hCellPadding
                            + 2 * penWidth),
                        Px(Val(d.c.height) + 2 * penWidth)>>),
                    !.scene = AddItem(@, "ScopeCell", d.c.addr, None)]
             IN  IF ~s.hidedocstrings THEN d1
                 ELSE IF IsNone(d.c.docBadge) THEN Fail(d1, "TypeError")
                 ELSE [d1 EXCEPT
                        !.scene = AddItem(@, "DocBadge", d.c.addr, None),
                        !.c.docBadge = Some(moveTo(Val(d.c.docBadge),
                            HalfPx(baseX - s.scopeRectRadius + penWidth),
                            HalfPx(baseY + penWidth)))]

\* ScopeCellElement.draw
ScopeDraw(c, s, node, grid, scn, cnv, baseX, baseY) ==
    LET d == Drawing([c EXCEPT !.baseX = Some(baseX), !.baseY = Some(baseY),
                               !.hasScene = TRUE], scn, cnv)
    IN  CASE c.subKind = TOP_LEFT -> DrawTopLeft(d, s, node, grid, baseX, baseY)
          [] c.subKind = DECLARATION -> DrawDeclaration(d, s, baseX, baseY)
          [] c.subKind = COMMENT -> DrawComment(d, s, baseX, baseY)
          [] c.subKind = DOCSTRING -> DrawDocstring(d, s, baseX, baseY)

\* SpacerCell.draw
SpacerDraw(c, scn, cnv, baseX, baseY) ==
    Drawing([c EXCEPT !.baseX = Some(baseX), !.baseY = Some(baseY)], scn, cnv)

\* CellElement.isSpacerItem / scopedItem
isSpacerItem(c) == c.kind \in {"VACANT", "H_SPACER", "V_SPACER", "SPACER"}
scopedItem(c) == c.kind \in { KindOf(cls) : cls \in ScopeClasses }

RECURSIVE ScanLeft(_, _, _)
\* The loop of ConnectorCell.__getY from column `index` down to 0: the
\* height in half pixels, or the exception raised
ScanLeft(c, grid, index) ==
    IF index < 0
    THEN IF IsNone(c.height) THEN Raised("TypeError")
         ELSE Returned(Val(c.height))
    ELSE IF <<index, c.addr[2]>> \notin DOMAIN grid THEN Raised("IndexError")
    ELSE LET cell == grid[<<index, c.addr[2]>>]
         IN  IF isSpacerItem(cell) THEN ScanLeft(c, grid, index - 1)
             ELSE IF scopedItem(cell) THEN ScanLeft(c, grid, -1)
             ELSE IF cell.kind # "CONNECTOR"
             THEN IF IsNone(cell.minHeight) THEN Raised("TypeError")
                  ELSE Returned(Val(cell.minHeight))
             ELSE ScanLeft(c, grid, index - 1)

__getY_Own(c, grid) == ScanLeft(c, grid, -1)

\* ConnectorCell.__getY, in half pixels
__getY(c, grid) == ScanLeft(c, grid, c.addr[1] - 1)

NestedShift_AnyCell(s, grid, a) ==
    IF a \notin DOMAIN grid THEN Raised("IndexError")
    ELSE Returned(grid[a].maxGlobalOpenGroupDepth * 2 * s.openGroupHSpacer)

\* The shift the nested grid at address `a` asks for: 0 when the cell there
\* is no nested grid, an exception when there is no cell
NestedShift(s, grid, a) ==
    IF a \notin DOMAIN grid THEN Raised("IndexError")
    ELSE IF grid[a].kind = "VCANVAS"
    THEN Returned(grid[a].maxGlobalOpenGroupDepth * 2 * s.openGroupHSpacer)
    ELSE Returned(0)

\* ConnectorCell.__getNorthXY
__getNorthXY(c, s, grid, baseX) ==
    LET shift == IF c.subKind = BOTTOM_IF
                 THEN NestedShift(s, grid, <<c.addr[1], c.addr[2] - 1>>)
                 ELSE Returned(0)
    IN  IF shift.exc # "" THEN shift
        ELSE Returned(<<Px(baseX + Val(shift.ret) + s.mainLine),
                        Px(Val(c.baseY))>>)

__getSouthXY_OwnBase(c, s, grid, baseX) ==
    IF IsNone(c.height) THEN Raised("TypeError")
    ELSE Returned(<<Px(Val(c.baseX) + s.mainLine),
                    Px(Val(c.baseY) + Val(c.height))>>)

\* ConnectorCell.__getSouthXY
__getSouthXY(c, s, grid, baseX) ==
    LET shift == IF c.subKind = TOP_IF
                 THEN NestedShift(s, grid, <<c.addr[1], c.addr[2] + 1>>)
                 ELSE Returned(0)
    IN  IF shift.exc # "" THEN shift
        ELSE IF IsNone(c.height) THEN Raised("TypeError")
        ELSE Returned(<<Px(baseX + Val(shift.ret) + s.mainLine),
                        Px(Val(c.baseY) + Val(c.height))>>)

\* ConnectorCell.__getXY
__getXY(c, s, grid, location) ==
    LET hShift == c.hShift * 2 * s.openGroupHSpacer
        baseX == IF c.subKind \notin {TOP_IF, BOTTOM_IF}
                 THEN Val(c.baseX) + hShift ELSE Val(c.baseX)
        y == __getY(c, grid)
    IN  CASE location = NORTH -> __getNorthXY(c, s, grid, baseX)
          [] location = SOUTH -> __getSouthXY(c, s, grid, baseX)
          [] location = WEST ->
                IF y.exc # "" THEN y
                ELSE Returned(<<Px(baseX),
                                Px(Val(c.baseY)) + HalfPx(Val(y.ret))>>)
          [] location = EAST ->
                IF IsNone(c.width) THEN Raised("TypeError")
                ELSE IF y.exc # "" THEN y
                ELSE Returned(<<Px(baseX + Val(c.width) - hShift),
                                Px(Val(c.baseY)) + HalfPx(Val(y.ret))>>)
          [] OTHER ->
                LET shift ==
                        CASE c.subKind = TOP_IF ->
                                NestedShift(s, grid,
                                            <<c.addr[1], c.addr[2] + 1>>)
                          [] c.subKind = BOTTOM_IF ->
                                NestedShift(s, grid,
                                            <<c.addr[1], c.addr[2] - 1>>)
                          [] OTHER -> Returned(0)
                IN  IF shift.exc # "" THEN shift
                    ELSE IF y.exc # "" THEN y
                    ELSE Returned(<<Px(baseX + Val(shift.ret) + s.mainLine),
                                    Px(Val(c.baseY)) + HalfPx(Val(y.ret))>>)

__angled_OneWay(begin, end) ==
    begin \in {NORTH, SOUTH} /\ end \in {WEST, EAST}

\* ConnectorCell.__angled
__angled(begin, end) ==
    IF begin \in {NORTH, SOUTH} /\ end \in {WEST, EAST} THEN TRUE
    ELSE end \in {NORTH, SOUTH} /\ begin \in {WEST, EAST}

ConnectionPath_Straight(c, s, grid, connection) ==
    LET start == __getXY(c, s, grid, connection[1])
        end == __getXY(c, s, grid, connection[2])
    IN  IF start.exc # "" THEN start
        ELSE IF end.exc # "" THEN end
        ELSE Returned(<< <<"moveTo", Val(start.ret)>>,
                         <<"lineTo", Val(end.ret)>> >>)

\* What one connection adds to the path: moveTo and lineTo steps, or the
\* exception raised while its anchors are resolved
ConnectionPath(c, s, grid, connection) ==
    LET start == __getXY(c, s, grid, connection[1])
        end == __getXY(c, s, grid, connection[2])
        center == __getXY(c, s, grid, CENTER)
    IN  IF start.exc # "" THEN start
        ELSE IF end.exc # "" THEN end
        ELSE IF __angled(connection[1], connection[2])
        THEN IF center.exc # "" THEN center
             ELSE Returned(<< <<"moveTo", Val(start.ret)>>,
                              <<"lineTo", Val(center.ret)>>,
                              <<"lineTo", Val(end.ret)>> >>)
        ELSE Returned(<< <<"moveTo", Val(start.ret)>>,
                         <<"lineTo", Val(end.ret)>> >>)

RECURSIVE PathFrom(_, _, _, _, _)
\* The loop of ConnectorCell.draw over connections[i..]
PathFrom(c, s, grid, i, path) ==
    IF i > Len(c.connections) THEN Returned(path)
    ELSE LET p == ConnectionPath(c, s, grid, c.connections[i])
         IN  IF p.exc # "" THEN p
             ELSE PathFrom(c, s, grid, i + 1, path \o Val(p.ret))

\* ConnectorCell.draw
ConnectorDraw(c, s, grid, scn, cnv, baseX, baseY) ==
    LET c1 == [c EXCEPT !.baseX = Some(baseX), !.baseY = Some(baseY)]
        path == PathFrom(c1, s, grid, 1, <<>>)
    IN  IF path.exc # "" THEN Fail(Drawing(c1, scn, cnv), path.exc)
        ELSE Drawing([c1 EXCEPT !.path = path.ret],
                     AddItem(scn, "ConnectorCell", c.addr, None), cnv)

\* cell.draw(scene, baseX, baseY) by the class of the cell
DrawOf(c, s, node, grid, scn, cnv, baseX, baseY) ==
    CASE c.cls = "Spacer" -> SpacerDraw(c, scn, cnv, baseX, baseY)
      [] c.cls = "Connector" -> ConnectorDraw(c, s, grid, scn, cnv, baseX, baseY)
      [] OTHER -> ScopeDraw(c, s, node, grid, scn, cnv, baseX, baseY)

\* A call of draw(scene, base[1], base[2]) on the cell at address a
Draw(a, base) ==
    /\ a \in DOMAIN cells
    /\ LET d == DrawOf(cells[a], settings, ref, cells, scene, canvas,
                       base[1], base[2])
       IN  /\ cells' = [cells EXCEPT ![a] = d.c]
           /\ scene' = d.scene
           /\ canvas' = d.canvas
           /\ last' = [op |-> "draw", addr |-> a, arg |-> Some(base),
                       ret |-> None, exc |-> d.exc,
                       run |-> IF last.op = "draw" /\ last.addr = a
                               THEN Min(last.run + 1, MaxRepeat) ELSE 1]
    /\ UNCHANGED <<editor, browser, settings, ref>>

\* ------------------------------------------------------- drawing a canvas
\* A cell of the parent grid, as far as draw() reads it: its kind, the kind
\* of the top left cell of the grid it nests, where it was drawn, and its
\* needConnector attribute (None: the cell has no such attribute)
ParentCell(kind, firstKind, needConnector) ==
    [kind |-> kind, firstKind |-> firstKind,
     baseX |-> Some(0), minWidth |-> Some(12),
     needConnector |-> needConnector]

\* The parent grids of the canvas of a `cls` scope, the canvas at <<1, 1>>:
\* only the else and except scopes look at the cells to the left and above;
\* the cell above has the attribute needConnector or not, or is not there
ParentGrids(cls) ==
    IF cls \notin {"ForElse", "WhileElse", "TryElse", "Except"} THEN {None}
    ELSE {None} \cup
         { Some([a \in {<<0, 1>>, <<1, 0>>} |->
                    IF a = <<0, 1>> THEN left
                    ELSE ParentCell("CODE_BLOCK", None, need)]) :
             left \in { ParentCell("VCANVAS", Some("FOR_SCOPE"), None),
                        ParentCell("VCANVAS", Some("WHILE_SCOPE"), None),
                        ParentCell("VCANVAS", Some("TRY_SCOPE"), None),
                        ParentCell("CODE_BLOCK", None, None) },
             need \in {None, Some(TRUE), Some(FALSE)} } \cup
         { Some([a \in {<<0, 1>>} |->
                    ParentCell("VCANVAS", Some("TRY_SCOPE"), None)]) }

\* The canvas after its layout is done and its own draw() has begun
PlacedCanvas(parent) ==
    [addr |-> <<1, 1>>, width |-> Some(40), height |-> Some(21),
     minWidth |-> Some(40), minHeight |-> Some(21), baseX |-> Some(0),
     scopeRectangle |-> None, parentCells |-> parent]

\* The grid of a scope around the cell that is drawn: the corner cell
\* `topLeft`, the edge below it, and the cell of sub-kind `sub` when that
\* is not the corner
DrawGrid(cls, sub, s, topLeft) ==
    [a \in {<<0, 0>>, <<0, 1>>} \cup
           (IF sub = TOP_LEFT THEN {} ELSE {<<1, 1>>}) |->
        CASE a = <<0, 0>> -> topLeft
          [] a = <<0, 1>> -> ScopeVSideEdge(s, a)
          [] OTHER -> ScopeCell(cls, a, sub)]

\* The cell the calls of a behaviour are made on; the cells around it stay
\* as the initial state has them
Subject(grid) ==
    IF <<2, 1>> \in DOMAIN grid THEN <<2, 1>>
    ELSE IF <<1, 1>> \in DOMAIN grid THEN <<1, 1>> ELSE <<0, 0>>

\* The nodes the cells of a drawn scope are built for
DrawNodes(cls) ==
    { MkNode(cls, he,
             IF cls = "File" THEN None ELSE Some(CommentAt(1, 2)),
             IF cls \in {"File", "Function", "Class"}
             THEN Some(DocAt(2, 0)) ELSE None,
             <<2>>, Some(Frag(1, MaxLine)), None, None) :
        he \in IF cls = "Except" THEN {0, 1} ELSE {1} }

DrawSubKinds(cls) ==
    {TOP_LEFT, DECLARATION}
        \cup (IF cls = "File" THEN {} ELSE {COMMENT})
        \cup (IF cls \in {"File", "Function", "Class"} THEN {DOCSTRING} ELSE {})

\* A cell of a class that is not modelled, as far as ConnectorCell.draw
\* reads it
NeighbourCell(kind, addr, depth) ==
    CellElement(kind, addr)
        @@ [cls |-> "Neighbour", maxGlobalOpenGroupDepth |-> depth]

\* The connections of the connector cells that are drawn
DrawConnections ==
    SeqsUpTo(Anchors \X Anchors, 1) \cup
    { <<p, q>> : p \in {<<NORTH, SOUTH>>, <<WEST, SOUTH>>},
                 q \in {<<WEST, CENTER>>, <<NORTH, EAST>>} }

\* The height of the row of the connector cell, set by the cell next to it
RowHeight == 6

\* The reconciliation of the grid after the render pass: a rendered cell
\* gets the height of its row
Reconcile(c, rowHeight) ==
    [c EXCEPT !.height = Some(Max(Val(@), rowHeight))]

\* The kinds of the two cells left of the connector cell, the farther one
\* first: content behind a spacer, behind a connector and behind a scope
\* cell, spacers up to the start of the row, and content next to the cell
LeftRows ==
    { <<"CODE_BLOCK", "V_SPACER">>, <<"CODE_BLOCK", "CONNECTOR">>,
      <<"CODE_BLOCK", "FUNC_SCOPE">>, <<"V_SPACER", "V_SPACER">>,
      <<"CODE_BLOCK", "CODE_BLOCK">> }

\* The kinds of the cells above and below a connector cell of a sub-kind
Columns(sub) ==
    IF sub = GENERIC THEN { <<"VCANVAS", "VCANVAS">> }
    ELSE {"VCANVAS", "CODE_BLOCK"} \X {"VCANVAS", "CODE_BLOCK"}

\* The sub-kinds of a connector cell, each with the cells above and below
ConnectorShapes ==
    UNION { { <<sub, column>> : column \in Columns(sub) } :
                sub \in {GENERIC, TOP_IF, BOTTOM_IF} }

\* A grid around a connector cell at <<2, 1>>: two cells to the left, one
\* above and one below; the connector is fresh, or rendered and laid out
ConnectorGrids(s) ==
    { [a \in {<<0, 1>>, <<1, 1>>, <<2, 0>>, <<2, 1>>, <<2, 2>>} |->
        CASE a = <<0, 1>> ->
                [NeighbourCell(row[1], a, 0)
                    EXCEPT !.minHeight = Some(RowHeight - 2)]
          [] a = <<1, 1>> ->
                [NeighbourCell(row[2], a, 0)
                    EXCEPT !.minHeight = Some(RowHeight)]
          [] a = <<2, 1>> ->
                LET c == [ConnectorCell(conns, a, hs)
                            EXCEPT !.subKind = shape[1]]
                IN  IF laidOut
                    THEN Reconcile(ConnectorRender(c, s), RowHeight)
                    ELSE c
          [] a = <<2, 0>> -> NeighbourCell(shape[2][1], a, 1)
          [] OTHER -> NeighbourCell(shape[2][2], a, 2)] :
        row \in LeftRows,
        shape \in ConnectorShapes,
        conns \in DrawConnections,
        hs \in 0..MaxShift,
        laidOut \in BOOLEAN }

\* The origins draw() is given
BasePoints == { <<b, 2 * b>> : b \in 0..MaxBase }

\* The corner cell of a scope is drawn
InitDrawTopLeft ==
    \E cls \in ScopeClasses, hide \in BOOLEAN :
        \E node \in DrawNodes(cls), parent \in ParentGrids(cls) :
            /\ settings = MkSettings(MaxRadius, 0, hide, hide)
            /\ ref = node
            /\ cells = DrawGrid(cls, TOP_LEFT, settings,
                                ScopeCell(cls, <<0, 0>>, TOP_LEFT))
            /\ canvas \in {UnplacedCanvas, PlacedCanvas(parent)}
            /\ scene \in { EmptyScene(navBar) : navBar \in BOOLEAN }

\* Another cell of a scope is drawn, beside a corner cell that has or has
\* not been rendered
InitDrawScope ==
    \E cls \in ScopeClasses, hide \in BOOLEAN :
        \E sub \in DrawSubKinds(cls) \ {TOP_LEFT}, node \in DrawNodes(cls) :
            /\ settings = MkSettings(MaxRadius, 0, hide, hide)
            /\ ref = node
            /\ \E topLeft \in
                    { ScopeCell(cls, <<0, 0>>, TOP_LEFT),
                      ScopeRender(ScopeCell(cls, <<0, 0>>, TOP_LEFT),
                                  settings, ref, <<>>) } :
                    cells = DrawGrid(cls, sub, settings, topLeft)
            /\ canvas \in {UnplacedCanvas, PlacedCanvas(None)}
            /\ scene = EmptyScene(TRUE)

\* A spacer or a connector cell is drawn
InitDrawAux ==
    /\ settings = MkSettings(MaxRadius, 0, FALSE, FALSE)
    /\ ref = MkNode("Function", 1, None, None, <<2>>, None, None, None)
    /\ cells \in ConnectorGrids(settings) \cup
                 { [a \in {<<1, 1>>} |-> aux] :
                        aux \in { c \in AuxCells(settings, <<1, 1>>) :
                                    c.cls = "Spacer" } }
    /\ canvas = PlacedCanvas(None)
    /\ scene = EmptyScene(TRUE)

InitDraw ==
    /\ InitDrawTopLeft \/ InitDrawScope \/ InitDrawAux
    /\ last = NoCall
    /\ editor = None /\ browser = None

NextDraw ==
    \/ Render(Subject(cells))
    \/ \E base \in BasePoints : Draw(Subject(cells), base)

SpecDraw == InitDraw /\ [][NextDraw]_vars

\* ============================================================== properties
Inside(v, r) == v >= r[1] /\ v <= r[2]

\* The source ranges a scope cell stands for in the nearest-cell search:
\* its docstring, its side comment, the encoding and shebang lines of a
\* file header, the body of any other header; none for the corner cell
BackingRanges(c, node, lines) ==
    LET R(f) == IF lines THEN LineRangeOf(f) ELSE AbsPosRangeOf(f)
    IN  CASE c.subKind = DOCSTRING -> {R(Val(node.docstring))}
          [] c.subKind = COMMENT -> {R(Val(node.sideComment))}
          [] c.subKind = DECLARATION /\ c.cls = "File" ->
                { R(Val(f)) : f \in {node.encodingLine, node.bangLine} \ {None} }
          [] c.subKind = DECLARATION /\ c.cls # "File" -> {R(Val(node.body))}
          [] OTHER -> {}

\* The node has the part the cell of this sub-kind was built for
HasBacking(c, node) ==
    /\ c.subKind = DOCSTRING => ~IsNone(node.docstring)
    /\ c.subKind = COMMENT => node.hasSideComment /\ ~IsNone(node.sideComment)

\* C4: getTopLeftItem() on a DECLARATION cell at (column, row) returns the
\* cell stored at (column - 1, row - 1) of the same canvas; on a cell of any
\* other sub-kind it raises and returns no cell.
C4_TopLeftItem ==
    last.op = "getTopLeftItem" =>
        IF cells[last.addr].subKind = DECLARATION
        THEN /\ last.exc = ""
             /\ last.ret = Some(cells[<<last.addr[1] - 1, last.addr[2] - 1>>])
        ELSE last.exc = "Exception" /\ last.ret = None

C4_Witness ==
    /\ last.op = "getTopLeftItem"
    /\ cells[last.addr].subKind = DECLARATION
    /\ last.ret = Some(cells[<<0, 0>>])

C6_MissingRangeGuarded ==
    (last.op \in {"getDistance", "getLineDistance", "getLineRange",
                  "getAbsPosRange"}
        /\ cells[last.addr].subKind \in {COMMENT, DOCSTRING}
        /\ ~HasBacking(cells[last.addr], ref)) =>
        /\ last.exc = ""
        /\ last.op \in {"getDistance", "getLineDistance"} =>
                last.ret = Some(maxsize)

\* C7: getLineRange() and getAbsPosRange() of a DOCSTRING cell of a file,
\* function or class scope are the range of the docstring body, not the
\* range of the scope; of a COMMENT cell of any other scope than the file,
\* the range of the side comment.
C7_RangeNarrowing ==
    (last.op \in {"getLineRange", "getAbsPosRange"}
        /\ HasBacking(cells[last.addr], ref)) =>
        LET c == cells[last.addr]
            R(f) == IF last.op = "getLineRange" THEN LineRangeOf(f)
                    ELSE AbsPosRangeOf(f)
        IN  /\ (c.subKind = DOCSTRING /\ c.cls \in {"File", "Function", "Class"})
                    => /\ last.ret = Some(R(Val(ref.docstring).body))
                       /\ last.ret # Some(R(ref.range))
            /\ (c.subKind = COMMENT /\ c.cls # "File")
                    => /\ last.ret = Some(R(Val(ref.sideComment)))
                       /\ last.ret # Some(R(ref.range))

C7_Witness ==
    /\ last.op = "getLineRange"
    /\ cells[last.addr].cls = "Function"
    /\ cells[last.addr].subKind = DOCSTRING
    /\ ~IsNone(ref.docstring)
    /\ Val(ref.docstring).beginLine < Val(ref.docstring).body.beginLine
    /\ last.ret = Some(<<2, 2>>)

\* C8: getLineRange() and getAbsPosRange() of the TOP_LEFT cell of a file
\* scope whose node has no body return [0, 0], whatever else the node has.
C8_EmptyBuffer ==
    (last.op \in {"getLineRange", "getAbsPosRange"}
        /\ cells[last.addr].cls = "File"
        /\ cells[last.addr].subKind = TOP_LEFT
        /\ IsNone(ref.body)) =>
        last.exc = "" /\ last.ret = Some(<<0, 0>>)

C8_Witness ==
    /\ last.op = "getAbsPosRange"
    /\ cells[last.addr].cls = "File"
    /\ cells[last.addr].subKind = TOP_LEFT
    /\ IsNone(ref.body)
    /\ ~IsNone(ref.docstring)
    /\ last.ret = Some(<<0, 0>>)

\* A cell whose render() has completed
Rendered(c) == ~IsNone(c.minWidth) /\ ~IsNone(c.minHeight)

\* C1: a render() that follows a render() of the same cell, with nothing in
\* between, returns the same (width, height) pair and leaves minWidth and
\* minHeight as they were: spacers, connector cells and scope cells alike.
C1_RenderIdempotent ==
    [][\A a \in DOMAIN cells :
        (last.op = "render" /\ last.addr = a /\ last.exc = ""
            /\ last'.op = "render" /\ last'.addr = a) =>
            /\ last'.exc = ""
            /\ last'.ret = last.ret
            /\ cells'[a].minWidth = cells[a].minWidth
            /\ cells'[a].minHeight = cells[a].minHeight
            /\ cells'[a].width = cells[a].width
            /\ cells'[a].height = cells[a].height]_vars

C1_Witness ==
    /\ last.op = "render" /\ last.run = MaxRepeat /\ last.exc = ""
    /\ cells[last.addr].cls = "Connector"
    /\ cells[last.addr].hShift > 0
    /\ Val(cells[last.addr].minWidth) > 0
    /\ last.ret = Some(<<Val(cells[last.addr].minWidth),
                         Val(cells[last.addr].minHeight)>>)

\* C2: draw() on a cell whose render() has not been called raises the
\* layout error, records no position and adds nothing to the scene.
C2_DrawNeedsRender ==
    (last.op = "draw" /\ ~Rendered(cells[last.addr])) =>
        /\ last.exc = "LayoutError"
        /\ IsNone(cells[last.addr].baseX)
        /\ IsNone(cells[last.addr].baseY)
        /\ \A i \in scene.items : i.of # last.addr

\* C3: after render() every cell has minWidth >= 0, minHeight >= 0,
\* width >= minWidth and height >= minHeight, whatever the settings are.
C3_MinimumSizes ==
    \A a \in DOMAIN cells :
        Rendered(cells[a]) =>
            /\ Val(cells[a].minWidth) >= 0
            /\ Val(cells[a].minHeight) >= 0
            /\ Val(cells[a].width) >= Val(cells[a].minWidth)
            /\ Val(cells[a].height) >= Val(cells[a].minHeight)

\* C9: with hidecomments set, a rendered COMMENT cell of any scope has the
\* placeholder hiddenCommentText as its text, with no blank lines added,
\* its minimum sizes are computed from the placeholder with the hidden-text
\* paddings, and getLineRange() is the line range of the real side comment.
C9_HiddenComment ==
    \A a \in DOMAIN cells :
        LET c == cells[a]
            s == settings
            rect == getBoundingRect(s, s.hiddenCommentText)
        IN  (IsScopeCell(c) /\ c.subKind = COMMENT /\ s.hidecomments
                /\ Rendered(c)) =>
                /\ c._sideComment = Some(s.hiddenCommentText)
                /\ c._sideCommentRect = Some(rect)
                /\ c.minHeight = Some(rect.h
                        + 2 * (s.vHeaderPadding + s.vHiddenTextPadding)
                        - s.scopeRectRadius)
                /\ c.minWidth = Some(s.hCellPadding + 2 * s.hHiddenTextPadding
                        + rect.w + s.hHeaderPadding - s.scopeRectRadius)
                /\ getLineRange(c, ref) =
                        Returned(LineRangeOf(Val(ref.sideComment)))

C9_Witness ==
    \E a \in DOMAIN cells :
        /\ cells[a].cls = "Function" /\ cells[a].subKind = COMMENT
        /\ settings.hidecomments /\ Rendered(cells[a])
        /\ Val(ref.sideComment).beginLine > Val(ref.name).beginLine
        /\ cells[a]._sideComment = Some(settings.hiddenCommentText)

\* The DECLARATION cell of a class scope has just been rendered, the corner
\* cell had its badge by then, and the badge is wider than the heading text
C10_BadgeWider ==
    /\ last.op = "render" /\ last.exc = ""
    /\ cells[last.addr].cls = "Class"
    /\ cells[last.addr].subKind = DECLARATION
    /\ ~IsNone(cells[<<0, 0>>]._badgeItem)
    /\ Val(cells[<<0, 0>>]._badgeItem).width >
            Val(cells[last.addr]._headerRect).w

\* C10 as stated: for a class scope whose badge is wider than the heading
\* text, the rendered DECLARATION cell has minWidth = badge width +
\* hHeaderPadding.
C10_BadgePlusPadding ==
    C10_BadgeWider =>
        cells[last.addr].minWidth =
            Some(Val(cells[<<0, 0>>]._badgeItem).width + settings.hHeaderPadding)

\* C10 amended: for a class scope whose badge is wider than the heading
\* text, the rendered DECLARATION cell has minWidth = the larger of
\* settings.minWidth and badge width + hHeaderPadding - scopeRectRadius +
\* (hCellPadding when the node has a side comment, else hHeaderPadding);
\* the width of the text has no part in it.
C10_BadgeWidth ==
    C10_BadgeWider =>
        cells[last.addr].minWidth =
            Some(Max(settings.minWidth,
                     Val(cells[<<0, 0>>]._badgeItem).width
                        + settings.hHeaderPadding - settings.scopeRectRadius
                        + (IF ref.hasSideComment /\ ~IsNone(ref.sideComment)
                           THEN settings.hCellPadding
                           ELSE settings.hHeaderPadding)))

C10_Witness ==
    /\ C10_BadgeWider
    /\ settings.minWidth = 0
    /\ settings.scopeRectRadius > 0
    /\ Val(cells[last.addr].minWidth) >
            Val(cells[last.addr]._headerRect).w + 2 * settings.hHeaderPadding

\* The cell the calls are made on is the corner cell of a scope
SubjectIsTopLeft ==
    /\ IsScopeCell(cells[Subject(cells)])
    /\ cells[Subject(cells)].subKind = TOP_LEFT

\* The canvas of a loop's else scope sits right of the canvas of the loop
ElseFollowsLoop ==
    /\ SubjectIsTopLeft
    /\ cells[Subject(cells)].cls \in {"ForElse", "WhileElse"}
    /\ ~IsNone(canvas.parentCells)
    /\ Val(canvas.parentCells)[<<0, 1>>].kind = "VCANVAS"
    /\ Val(canvas.parentCells)[<<0, 1>>].firstKind \in
            {Some("FOR_SCOPE"), Some("WHILE_SCOPE")}

\* The connector objects of the cell at `a` on the scene
ConnectorItems(scn, a) ==
    { i \in scn.items : i.item = "Connector" /\ i.of = a }

\* The dotted connector a draw at `base` makes for an else scope: from the
\* right edge of the cell to the left of the canvas to the left edge of
\* the scope
DottedConnector(base) ==
    LET left == Val(canvas.parentCells)[<<0, 1>>]
        y == Px(base[2] + 2 * settings.vCellPadding)
    IN  [x1 |-> Px(Val(left.baseX) + Val(left.minWidth)
                    - settings.hCellPadding + settings.boxLineWidth),
         y1 |-> y,
         x2 |-> Px(base[1] + settings.hCellPadding - settings.boxLineWidth),
         y2 |-> y,
         penStyle |-> Some("DotLine")]

\* The connectors of the cell at `a` that run horizontally, and those that
\* run down the whole height of the canvas
HorizontalConnectors(scn, a) ==
    { i \in ConnectorItems(scn, a) : i.line[2] = i.line[4] }
FullHeightConnectors(scn, cnv, a) ==
    { i \in ConnectorItems(scn, a) :
        /\ i.line[1] = i.line[3]
        /\ ~IsNone(cnv.height)
        /\ i.line[4] - i.line[2] = Px(Val(cnv.height)) }

\* C11: when the else scope follows a for or while scope, a draw() of its
\* TOP_LEFT cell that completes leaves the scene with exactly one horizontal
\* connector of the cell, dotted and running from the right edge of the
\* loop scope to the left edge of the else scope (the first draw makes it,
\* a later draw makes no other), and with no connector of the cell along
\* the full height of the scope.
C11_LoopElseConnector ==
    [][(ElseFollowsLoop /\ last'.op = "draw" /\ last'.exc = "") =>
        LET a == Subject(cells)
            k == IF IsNone(cells[a]._connector)
                 THEN DottedConnector(Val(last'.arg))
                 ELSE Val(cells[a]._connector)
        IN  /\ cells'[a]._connector = Some(k)
            /\ k.penStyle = Some("DotLine")
            /\ HorizontalConnectors(scene', a) =
                    {[item |-> "Connector", of |-> a,
                      line |-> <<k.x1, k.y1, k.x2, k.y2>>]}
            /\ k.y1 = k.y2
            /\ FullHeightConnectors(scene', canvas', a) = {}]_vars

C11_Witness ==
    /\ ElseFollowsLoop
    /\ last.op = "draw" /\ last.exc = "" /\ last.run = MaxRepeat
    /\ Val(last.arg) # <<0, 0>>
    /\ ~IsNone(cells[Subject(cells)]._connector)
    /\ Val(cells[Subject(cells)]._connector).penStyle = Some("DotLine")
    /\ Cardinality(ConnectorItems(scene, Subject(cells))) = 1

\* The connector cell the calls are made on, when it is one
SubjectIsConnector == cells[Subject(cells)].cls = "Connector"

\* The connector cell has its size and has been given its position
Positioned(c) ==
    /\ ~IsNone(c.baseX) /\ ~IsNone(c.baseY)
    /\ ~IsNone(c.width) /\ ~IsNone(c.height)

\* C12: for a connector cell of sub-kind GENERIC with the one connection
\* (NORTH, SOUTH), whatever origin, hShift and height it has, the X resolved
\* for NORTH is the X resolved for SOUTH, NORTH's Y is baseY and SOUTH's Y
\* is baseY + height; the path drawn is that vertical line.
C12_StraightVertical ==
    LET c == cells[Subject(cells)]
        north == __getXY(c, settings, cells, NORTH)
        south == __getXY(c, settings, cells, SOUTH)
    IN  (/\ SubjectIsConnector
         /\ c.subKind = GENERIC
         /\ c.connections = << <<NORTH, SOUTH>> >>
         /\ Positioned(c)) =>
            /\ north.exc = "" /\ south.exc = ""
            /\ Val(north.ret)[1] = Val(south.ret)[1]
            /\ Val(north.ret)[2] = Px(Val(c.baseY))
            /\ Val(south.ret)[2] = Px(Val(c.baseY) + Val(c.height))
            /\ (last.op = "draw" =>
                    c.path = Some(<< <<"moveTo", Val(north.ret)>>,
                                     <<"lineTo", Val(south.ret)>> >>))

C12_Witness ==
    LET c == cells[Subject(cells)]
    IN  /\ SubjectIsConnector
        /\ c.subKind = GENERIC
        /\ c.connections = << <<NORTH, SOUTH>> >>
        /\ Positioned(c)
        /\ last.op = "draw" /\ last.exc = ""
        /\ c.hShift = MaxShift
        /\ Val(c.height) > 0
        /\ Val(c.baseX) > 0
        /\ Len(Val(c.path)) = 2

\* One end is on the vertical axis and the other on the horizontal axis
Crosses(begin, end) ==
    \/ begin \in {NORTH, SOUTH} /\ end \in {WEST, EAST}
    \/ begin \in {WEST, EAST} /\ end \in {NORTH, SOUTH}

\* C13: for every connection (begin, end) of a connector cell, the
\* connection is angled exactly when one end is NORTH or SOUTH and the other
\* WEST or EAST; the answer is the same for (end, begin); a pair with
\* CENTER, (NORTH, SOUTH) and (WEST, EAST) are not angled; and a drawn cell
\* with one connection goes through the centre exactly when it is angled.
C13_Angled ==
    LET c == cells[Subject(cells)]
    IN  SubjectIsConnector =>
            /\ \A i \in 1..Len(c.connections) :
                LET begin == c.connections[i][1]
                    end == c.connections[i][2]
                IN  /\ __angled(begin, end) <=> Crosses(begin, end)
                    /\ __angled(begin, end) <=> __angled(end, begin)
                    /\ CENTER \in {begin, end} => ~__angled(begin, end)
                    /\ {begin, end} \in {{NORTH, SOUTH}, {WEST, EAST}} =>
                            ~__angled(begin, end)
            /\ (last.op = "draw" /\ last.exc = "" /\ Len(c.connections) = 1)
                => Len(Val(c.path)) =
                        (IF Crosses(c.connections[1][1], c.connections[1][2])
                         THEN 3 ELSE 2)

C13_Witness ==
    LET c == cells[Subject(cells)]
    IN  /\ SubjectIsConnector
        /\ c.connections = << <<WEST, NORTH>> >>
        /\ last.op = "draw" /\ last.exc = ""
        /\ Len(Val(c.path)) = 3

\* Some connection of the list has one of the anchors at an end
Touches(connections, anchors) ==
    \E i \in 1..Len(connections) :
        {connections[i][1], connections[i][2]} \cap anchors # {}

\* C14: after render() of a connector cell, minWidth is mainLine +
\* hCellPadding + hShift * 2 * openGroupHSpacer when some connection has a
\* NORTH or SOUTH end and 0 otherwise, and minHeight is 2 * vCellPadding
\* when some connection has an EAST or WEST end and 0 otherwise.
C14_ConnectorSpace ==
    (last.op = "render" /\ cells[last.addr].cls = "Connector") =>
        LET c == cells[last.addr]
        IN  /\ c.minWidth = Some(IF Touches(c.connections, {NORTH, SOUTH})
                                 THEN settings.mainLine
                                      + settings.hCellPadding
                                      + c.hShift * 2
                                        * settings.openGroupHSpacer
                                 ELSE 0)
            /\ c.minHeight = Some(IF Touches(c.connections, {EAST, WEST})
                                  THEN 2 * settings.vCellPadding
                                  ELSE 0)

C14_Witness ==
    /\ last.op = "render"
    /\ cells[last.addr].cls = "Connector"
    /\ cells[last.addr].connections = << <<WEST, CENTER>>, <<CENTER, SOUTH>> >>
    /\ cells[last.addr].hShift = MaxShift
    /\ Val(cells[last.addr].minWidth) > settings.mainLine
    /\ Val(cells[last.addr].minHeight) > 0

\* The cell the calls are made on is of the spacer family
SubjectIsSpacer == cells[Subject(cells)].cls = "Spacer"

\* C15 (as stated): for every cell of the spacer family, render() returns
\* exactly the (width, height) the cell was constructed with and leaves them
\* as they were, and draw() records baseX and baseY only: nothing is added
\* to the scene and no size field changes.
C15_SpacerUnchanged ==
    [][SubjectIsSpacer =>
        LET a == Subject(cells)
        IN  /\ last'.op = "render" =>
                /\ cells'[a].width = cells[a].width
                /\ cells'[a].height = cells[a].height
                /\ last'.ret = Some(<<Val(cells[a].width),
                                      Val(cells[a].height)>>)
            /\ last'.op = "draw" =>
                /\ scene' = scene
                /\ cells' = [cells EXCEPT
                                ![a].baseX = Some(Val(last'.arg)[1]),
                                ![a].baseY = Some(Val(last'.arg)[2])]]_vars

\* C16 (as stated): after render() an HSpacerCell has the width it was
\* built with (settings.hSpacer or the explicit width) and height 0, and a
\* VSpacerCell has the height it was built with (settings.vSpacer or the
\* explicit height) and width 0.
C16_SpacerAxes ==
    [][\A a \in DOMAIN cells :
        (last'.op = "render" /\ last'.addr = a) =>
            /\ cells[a].kind = "H_SPACER" =>
                /\ cells[a].width \in {Some(settings.hSpacer), Some(4)}
                /\ cells'[a].width = cells[a].width
                /\ cells'[a].height = Some(0)
            /\ cells[a].kind = "V_SPACER" =>
                /\ cells[a].height \in {Some(settings.vSpacer), Some(4)}
                /\ cells'[a].height = cells[a].height
                /\ cells'[a].width = Some(0)]_vars

\* C17: no render() and no draw() changes the settings, and a render() of a
\* cell changes nothing but that cell: every other cell of the grid, the
\* canvas and the scene are as they were.
C17_RenderLocal ==
    [][/\ settings' = settings
       /\ last'.op = "render" =>
            /\ DOMAIN cells' = DOMAIN cells
            /\ \A b \in DOMAIN cells \ {last'.addr} : cells'[b] = cells[b]
            /\ canvas' = canvas
            /\ scene' = scene]_vars

C17_Witness ==
    /\ last.op = "render" /\ last.exc = ""
    /\ Cardinality(DOMAIN cells) > 1
    /\ cells[last.addr].width # None
    /\ cells[last.addr].baseX # None
    /\ scene.items # {}

\* The scope classes whose corner cell gets the connector along the scope
ConnectedScopes ==
    {"For", "While", "Decorator", "Function", "Class", "With", "Finally",
     "Try", "TryElse"}

\* C18: after a draw() of a TOP_LEFT cell that completes, the scene holds
\* the vertical connector of the full height of the scope exactly when the
\* scope is a for, while, decorator, function, class, with, finally or try
\* scope or the else scope of a try; a file scope, an except scope and the
\* else scope of a loop never have it.
C18_ScopeConnector ==
    SubjectIsTopLeft =>
        LET a == Subject(cells)
            full == FullHeightConnectors(scene, canvas, a)
        IN  /\ (last.op = "draw" /\ last.exc = "") =>
                    (full # {} <=> cells[a].cls \in ConnectedScopes)
            /\ cells[a].cls \in {"File", "Except", "ForElse", "WhileElse"}
                    => full = {}

C18_Witness ==
    /\ SubjectIsTopLeft
    /\ cells[Subject(cells)].cls = "TryElse"
    /\ last.op = "draw" /\ last.exc = ""
    /\ FullHeightConnectors(scene, canvas, Subject(cells)) # {}
    /\ cells[Subject(cells)]._topHalfConnector # None

\* The shift a neighbour asks for: that of its open groups when it is a
\* nested grid, none otherwise
ShiftBy(n) ==
    IF n.kind = "VCANVAS"
    THEN n.maxGlobalOpenGroupDepth * 2 * settings.openGroupHSpacer
    ELSE 0

\* C19: for a connector cell of sub-kind TOP_IF the X resolved for the
\* anchors towards the cell below (SOUTH and CENTER) is baseX + mainLine
\* shifted right by maxGlobalOpenGroupDepth * 2 * openGroupHSpacer of the
\* cell directly below when that cell is a nested grid, and not shifted
\* when it is not; likewise for BOTTOM_IF, the anchors NORTH and CENTER and
\* the cell directly above.
C19_NestedShift ==
    LET c == cells[Subject(cells)]
        below == cells[<<c.addr[1], c.addr[2] + 1>>]
        above == cells[<<c.addr[1], c.addr[2] - 1>>]
        X(location) == __getXY(c, settings, cells, location)
    IN  (SubjectIsConnector /\ Positioned(c)) =>
            /\ c.subKind = TOP_IF =>
                \A location \in {SOUTH, CENTER} :
                    /\ X(location).exc = ""
                    /\ Val(X(location).ret)[1] =
                        Px(Val(c.baseX) + settings.mainLine + ShiftBy(below))
            /\ c.subKind = BOTTOM_IF =>
                \A location \in {NORTH, CENTER} :
                    /\ X(location).exc = ""
                    /\ Val(X(location).ret)[1] =
                        Px(Val(c.baseX) + settings.mainLine + ShiftBy(above))

C19_Witness ==
    LET c == cells[Subject(cells)]
    IN  /\ SubjectIsConnector /\ Positioned(c)
        /\ c.subKind = TOP_IF
        /\ c.connections = << <<WEST, SOUTH>> >>
        /\ cells[<<c.addr[1], c.addr[2] + 1>>].kind = "VCANVAS"
        /\ cells[<<c.addr[1], c.addr[2] - 1>>].kind # "VCANVAS"
        /\ last.op = "draw" /\ last.exc = ""
        /\ Len(Val(c.path)) = 3
        /\ Val(c.path)[3][2][1] > Px(Val(c.baseX) + settings.mainLine)

\* The number of path steps the connections before the i-th take: a moveTo
\* and a lineTo each, and one more lineTo for each angled one
StepsBefore(connections, i) ==
    2 * (i - 1) +
    Cardinality({ j \in 1..(i - 1) :
                    Crosses(connections[j][1], connections[j][2]) })

\* C20: after a draw() of a connector cell that completes, the path holds,
\* for each connection in list order, the two segments start -> CENTER ->
\* end when the connection is angled and the one segment start -> end when
\* it is not, and nothing else.
C20_PathSegments ==
    LET c == cells[Subject(cells)]
        n == Len(c.connections)
        P(location) == Val(__getXY(c, settings, cells, location).ret)
    IN  (SubjectIsConnector /\ last.op = "draw" /\ last.exc = "") =>
            /\ c.path # None
            /\ Len(Val(c.path)) = StepsBefore(c.connections, n + 1)
            /\ \A i \in 1..n :
                LET begin == c.connections[i][1]
                    end == c.connections[i][2]
                    k == StepsBefore(c.connections, i)
                    path == Val(c.path)
                IN  /\ path[k + 1] = <<"moveTo", P(begin)>>
                    /\ IF Crosses(begin, end)
                       THEN /\ path[k + 2] = <<"lineTo", P(CENTER)>>
                            /\ path[k + 3] = <<"lineTo", P(end)>>
                       ELSE path[k + 2] = <<"lineTo", P(end)>>

C20_Witness ==
    LET c == cells[Subject(cells)]
    IN  /\ SubjectIsConnector
        /\ last.op = "draw" /\ last.exc = ""
        /\ c.connections = << <<WEST, SOUTH>>, <<NORTH, EAST>> >>
        /\ Len(Val(c.path)) = 6
        /\ Val(c.path)[4][1] = "moveTo"
        /\ Val(c.path)[3] # Val(c.path)[6]

\* The columns left of the connector cell whose cell the scan does not
\* pass over, given the kinds it passes over besides the spacers
StopColumns(c, passed) ==
    { j \in 0..(c.addr[1] - 1) :
        /\ ~isSpacerItem(cells[<<j, c.addr[2]>>])
        /\ cells[<<j, c.addr[2]>>].kind \notin passed }

\* The height whose half is the Y offset of the anchors: the minimum height
\* of the nearest cell to the left that is not passed over, and the
\* connector's own height when there is none or it is a scope cell
AnchorHeight(c, passed) ==
    LET stops == StopColumns(c, passed)
        j == CHOOSE k \in stops : \A m \in stops : m <= k
    IN  IF stops = {} THEN Val(c.height)
        ELSE IF scopedItem(cells[<<j, c.addr[2]>>]) THEN Val(c.height)
        ELSE Val(cells[<<j, c.addr[2]>>].minHeight)

\* The Y of the WEST, EAST and CENTER anchors is baseY plus half of h
AnchorsAtHalf(c, h) ==
    \A location \in {WEST, EAST, CENTER} :
        LET xy == __getXY(c, settings, cells, location)
        IN  /\ xy.exc = ""
            /\ Val(xy.ret)[2] = Px(Val(c.baseY)) + HalfPx(h)

\* C21 (as stated): the Y offset of the WEST, EAST and CENTER anchors is
\* half the height of the first cell to the left in the row that is neither
\* a spacer nor a scope cell, and half the connector cell's own height when
\* a scope cell or the start of the row comes first.
C21_FirstNonSpacer ==
    LET c == cells[Subject(cells)]
    IN  (SubjectIsConnector /\ Positioned(c)) =>
            AnchorsAtHalf(c, AnchorHeight(c, {}))

\* C21 (amended): the scan also passes over connector cells, and the height
\* taken from the cell it stops at is that cell's minimum height.
C21_FirstContent ==
    LET c == cells[Subject(cells)]
    IN  (SubjectIsConnector /\ Positioned(c)) =>
            AnchorsAtHalf(c, AnchorHeight(c, {"CONNECTOR"}))

C21_Witness ==
    LET c == cells[Subject(cells)]
    IN  /\ SubjectIsConnector /\ Positioned(c)
        /\ cells[<<1, 1>>].kind = "CONNECTOR"
        /\ cells[<<0, 1>>].kind = "CODE_BLOCK"
        /\ Val(c.height) # Val(cells[<<0, 1>>].minHeight)
        /\ c.connections = << <<WEST, CENTER>> >>
        /\ last.op = "draw" /\ last.exc = ""
        /\ Val(c.path)[1][2][2] =
                Px(Val(c.baseY)) + HalfPx(Val(cells[<<0, 1>>].minHeight))

\* The connectors of the cell at `a` that run down half the height of the
\* canvas
HalfHeightConnectors(scn, cnv, a) ==
    { i \in ConnectorItems(scn, a) :
        /\ i.line[1] = i.line[3]
        /\ ~IsNone(cnv.height)
        /\ i.line[4] - i.line[2] = HalfPx(Val(cnv.height)) }

\* The cell directly above the canvas in the parent grid is there and
\* requires a connector
AboveNeedsConnector ==
    /\ ~IsNone(canvas.parentCells)
    /\ <<canvas.addr[1], canvas.addr[2] - 1>> \in
            DOMAIN Val(canvas.parentCells)
    /\ Val(canvas.parentCells)[<<canvas.addr[1], canvas.addr[2] - 1>>]
            .needConnector = Some(TRUE)

CommentRendered ==
    /\ last.op = "render" /\ last.exc = ""
    /\ IsScopeCell(cells[last.addr])
    /\ cells[last.addr].subKind = COMMENT
    /\ ~settings.hidecomments

\* The scope classes that align the side comment with the heading
AlignedScopes ==
    {"Function", "Class", "For", "While", "With", "Decorator"}

\* C23: with the comments shown, the side comment text of a function, class,
\* for, while, with or decorator scope, and of an except scope with a
\* clause, is the display text of the comment after (comment.beginLine -
\* heading.beginLine) blank lines and before max(0, heading.endLine -
\* comment.endLine) blank lines, so it has one line for each line from the
\* first line of the heading to the later of the last lines of the heading
\* and the comment; a try, else or finally scope and an except scope
\* without a clause take the display text as it is.
C23_SideCommentPadding ==
    CommentRendered =>
        LET c == cells[last.addr]
            sc == Val(ref.sideComment)
            heading == Val(ref.body)
            aligned == \/ c.cls \in AlignedScopes
                       \/ c.cls = "Except" /\ ref.clause # None
        IN  IF aligned
            THEN /\ c._sideComment =
                        Some(Blank(sc.beginLine - heading.beginLine)
                             \o sc.text
                             \o Blank(Max(0, heading.endLine - sc.endLine)))
                 /\ Len(Val(c._sideComment)) =
                        Max(heading.endLine, sc.endLine)
                            - heading.beginLine + 1
            ELSE c._sideComment = Some(sc.text)

C23_Witness ==
    /\ CommentRendered
    /\ cells[last.addr].cls = "Except"
    /\ ref.clause # None
    /\ Val(ref.sideComment).endLine < Val(ref.body).endLine
    /\ Len(Val(cells[last.addr]._sideComment)) > Len(Val(ref.sideComment).text)

\* The last call rendered the DECLARATION cell of a scope
DeclarationRendered ==
    /\ last.op = "render" /\ last.exc = ""
    /\ IsScopeCell(cells[last.addr])
    /\ cells[last.addr].subKind = DECLARATION

\* The corner cell of the scope of the cell at address a
CornerOf(a) == cells[<<a[1] - 1, a[2] - 1>>]

\* The minimum width of a DECLARATION cell whose heading needs the width w:
\* the header padding less the radius, the padding before the side comment
\* or the closing header padding, and the floor of the settings
DeclarationWidth(w) ==
    Max(settings.minWidth,
        w + settings.hHeaderPadding - settings.scopeRectRadius
          + (IF ref.hasSideComment /\ ref.sideComment # None
             THEN settings.hCellPadding ELSE settings.hHeaderPadding))

\* The badge of a scope of this kind is placed within the header
BadgeInHeader(c) ==
    \/ c.kind \in {"TRY_SCOPE", "ELSE_SCOPE", "FINALLY_SCOPE"}
    \/ c.kind = "EXCEPT_SCOPE" /\ ref.clause = None

\* C24: the corner cell of a scope has its badge exactly when it has been
\* rendered; a DECLARATION cell rendered before its corner cell gets its
\* minimum width from the heading text alone, and one rendered after it
\* gets it from the badge width as well.
C24_BadgeAfterCorner ==
    /\ \A a \in DOMAIN cells :
        (IsScopeCell(cells[a]) /\ cells[a].subKind = TOP_LEFT) =>
            (cells[a]._badgeItem # None <=> Rendered(cells[a]))
    /\ DeclarationRendered =>
        LET c == cells[last.addr]
            corner == CornerOf(last.addr)
            text == Val(c._headerRect).w
            badge == BadgeItem(settings, BadgeLabel(c.cls)).width
        IN  IF Rendered(corner)
            THEN /\ corner._badgeItem # None
                 /\ Val(c.minWidth) >= DeclarationWidth(badge)
                 /\ Val(c.minWidth) \in {DeclarationWidth(badge),
                                         DeclarationWidth(text)}
            ELSE c.minWidth = Some(DeclarationWidth(text))

C24_Witness ==
    /\ DeclarationRendered
    /\ ~Rendered(CornerOf(last.addr))
    /\ cells[last.addr].cls = "Class"
    /\ Val(cells[last.addr]._headerRect).w <
            BadgeItem(settings, BadgeLabel("Class")).width
    /\ Val(cells[last.addr].minWidth) <
            DeclarationWidth(BadgeItem(settings, BadgeLabel("Class")).width)

\* C27: when the corner cell has its badge, the rendered DECLARATION cell of
\* a try, else or finally scope and of an except scope without a clause has
\* the minimum width that the badge width alone needs, whatever the width of
\* the heading text; for every other scope it has the one that the larger
\* of the text width and the badge width needs.
C27_BadgeWithinHeader ==
    (DeclarationRendered /\ CornerOf(last.addr)._badgeItem # None) =>
        LET c == cells[last.addr]
            text == Val(c._headerRect).w
            badge == Val(CornerOf(last.addr)._badgeItem).width
        IN  c.minWidth =
                Some(DeclarationWidth(IF BadgeInHeader(c) THEN badge
                                      ELSE Max(text, badge)))

C27_Witness ==
    /\ DeclarationRendered
    /\ CornerOf(last.addr)._badgeItem # None
    /\ cells[last.addr].cls = "Except"
    /\ ref.clause = None
    /\ Val(cells[last.addr]._headerRect).w >
            Val(CornerOf(last.addr)._badgeItem).width
    /\ settings.minWidth = 0
    /\ Val(cells[last.addr].minWidth) <
            DeclarationWidth(Val(cells[last.addr]._headerRect).w)

\* C25: whatever draw() calls a TOP_LEFT cell has had, the scene holds at
\* most one scope connector of the cell (the vertical one along the scope
\* or the dotted horizontal one, never both) and at most one connector of
\* half the height, and they are the ones the cell holds.
C25_ConnectorsOnce ==
    SubjectIsTopLeft =>
        LET a == Subject(cells)
            c == cells[a]
            items == ConnectorItems(scene, a)
            half == HalfHeightConnectors(scene, canvas, a)
            LineOf(k) == <<k.x1, k.y1, k.x2, k.y2>>
        IN  /\ Cardinality(half) <= 1
            /\ Cardinality(items \ half) <= 1
            /\ ~(/\ FullHeightConnectors(scene, canvas, a) # {}
                 /\ HorizontalConnectors(scene, a) # {})
            /\ \A i \in items \ half :
                    c._connector # None /\ i.line = LineOf(Val(c._connector))
            /\ \A i \in half :
                    /\ c._topHalfConnector # None
                    /\ i.line = LineOf(Val(c._topHalfConnector))

C25_Witness ==
    LET a == Subject(cells)
    IN  /\ SubjectIsTopLeft
        /\ cells[a].cls = "TryElse"
        /\ last.op = "draw" /\ last.exc = "" /\ last.run = MaxRepeat
        /\ Val(cells[a]._connector).y1 # Px(Val(last.arg)[2])
        /\ Cardinality(ConnectorItems(scene, a)) = 2
        /\ Cardinality(HalfHeightConnectors(scene, canvas, a)) = 1
        /\ __followLoop(canvas)

\* C26 (as stated): for a COMMENT or DOCSTRING cell whose node has the
\* comment or docstring, getDistance(pos) is 0 exactly when pos is inside
\* the range getAbsPosRange() of the cell returns, and getLineDistance(line)
\* is 0 exactly when line is inside the range getLineRange() returns.
C26_DistanceMatchesRange ==
    (/\ last.op \in {"getDistance", "getLineDistance"}
     /\ cells[last.addr].subKind \in {COMMENT, DOCSTRING}
     /\ HasBacking(cells[last.addr], ref)) =>
        LET c == cells[last.addr]
            range == IF last.op = "getDistance" THEN getAbsPosRange(c, ref)
                     ELSE getLineRange(c, ref)
        IN  /\ last.exc = "" /\ range.exc = ""
            /\ last.ret = Some(0) <=> Inside(Val(last.arg), Val(range.ret))

\* ------------------------------------------------------------ getFirstLine
\* A CML comment that starts on `line`
CmlAt(line) == [ref |-> Frag(line, line)]

\* A comment fragment with one part per line given
LeadingAt(partLines) == [parts |-> [i \in DOMAIN partLines |-> Frag(partLines[i], partLines[i])]]

DocLine == MaxLine + 2

\* The docstrings whose body is on line DocLine, below the heading on line 2:
\* the docstring fragment begins on line b, its leading comment and its leading
\* CML comments lie between the heading and the body
FirstLineDocs ==
    { [beginLine |-> b, endLine |-> DocLine,
       begin |-> (b - 1) * LineLen, end |-> DocLine * LineLen - 1,
       body |-> Frag(DocLine, DocLine), text |-> <<5>>,
       leadingComment |-> lc, leadingCMLComments |-> cml] :
        b \in 3..DocLine,
        lc \in {None, Some(LeadingAt(<<>>)), Some(LeadingAt(<<3>>)),
                Some(LeadingAt(<<4>>))},
        cml \in {<<>>, <<CmlAt(3)>>, <<CmlAt(3), CmlAt(4)>>} }

\* A function or class whose heading is on line 2, with or without leading CML
\* comments of its own on line 1
FirstLineNodes(cls) ==
    { [hasSideComment |-> TRUE, sideComment |-> None, docstring |-> d,
       body |-> Some(Frag(2, 2)), range |-> Frag(1, DocLine + 1),
       name |-> Some(Frag(2, 2)), leadingCMLComments |-> cml, text |-> <<2>>] :
        d \in {None} \cup { Some(x) : x \in FirstLineDocs },
        cml \in {<<>>, <<CmlAt(1)>>} }

RECURSIVE FirstOf(_)
FirstOf(comments) ==
    IF comments = <<>> THEN maxsize
    ELSE Min(Head(comments).ref.beginLine, FirstOf(Tail(comments)))

\* CMLVersion.getFirstLine(comments): the first line of the comments; what it
\* does with an empty list is not fixed by these sources
CMLVersion_getFirstLine(comments) ==
    IF comments = <<>> THEN {Returned(maxsize), Raised("IndexError")}
    ELSE {Returned(FirstOf(comments))}

isDocstring(c) == c.subKind = DOCSTRING

\* ScopeCellElement.getFirstLine of a docstring cell; cmlFirst is the outcome
\* of CMLVersion.getFirstLine(self.ref.leadingCMLComments)
getFirstLine(c, node, cmlFirst) ==
    IF IsNone(node.docstring) THEN Raised("AttributeError")
    ELSE LET d == Val(node.docstring)
             line0 == maxsize
             cmlCalled == d.leadingCMLComments # <<>>
             line1 == IF cmlCalled THEN Val(cmlFirst.ret) ELSE line0
             line2 == IF ~IsNone(d.leadingComment)
                         /\ Val(d.leadingComment).parts # <<>>
                      THEN Min(Val(d.leadingComment).parts[1].beginLine, line1)
                      ELSE line1
         IN  IF cmlCalled /\ cmlFirst.exc # "" THEN cmlFirst
             ELSE Returned(Min(d.beginLine, line2))

\* cell.getFirstLine() on a docstring cell; the other sub-kinds hand over to
\* CellElement.getFirstLine
GetFirstLine(a) ==
    /\ a \in DOMAIN cells /\ isDocstring(cells[a])
    /\ \E cmlFirst \in CMLVersion_getFirstLine(ref.leadingCMLComments) :
        last' = Call("getFirstLine", a, None,
                     getFirstLine(cells[a], ref, cmlFirst))
    /\ UNCHANGED <<editor, browser, settings, ref, cells, canvas, scene>>

InitFirstLine ==
    /\ settings = MkSettings(MaxRadius, FloorWidth, FALSE, FALSE)
    /\ \E cls \in {"Function", "Class"} :
        \E node \in FirstLineNodes(cls) :
            /\ ref = node
            /\ cells = [a \in {<<1, 2>>} |-> ScopeCell(cls, a, DOCSTRING)]
    /\ canvas = UnplacedCanvas
    /\ scene = EmptyScene(TRUE)
    /\ last = NoCall
    /\ editor = None /\ browser = None

NextFirstLine == \E a \in DOMAIN cells : GetFirstLine(a)

SpecFirstLine == InitFirstLine /\ [][NextFirstLine]_vars

\* C28: getFirstLine() of a DOCSTRING cell is the least of the docstring's
\* begin line, the first line of the docstring's leading comment when it has
\* parts, and the first line of the docstring's leading CML comments when
\* there are any; it is never above the docstring's begin line
C28_FirstLineOfDocstring ==
    (/\ last.op = "getFirstLine" /\ last.exc = ""
     /\ ~IsNone(ref.docstring)) =>
        LET d == Val(ref.docstring)
            comment == IF ~IsNone(d.leadingComment)
                          /\ Val(d.leadingComment).parts # <<>>
                       THEN Val(d.leadingComment).parts[1].beginLine
                       ELSE maxsize
            cml == FirstOf(d.leadingCMLComments)
        IN  /\ last.ret = Some(Min(d.beginLine, Min(comment, cml)))
            /\ Val(last.ret) <= d.beginLine

\* --------------------------------------------------------- the editor zoom
MaxFont == 3
MaxZoom == 3

\* The point sizes of the skin fonts
FontSizes == 1..MaxFont

\* The zoom values stored in the settings and handed to zoomTo
ZoomVals == (0 - MaxZoom - 1)..MaxZoom

\* The diagram is not in use while the editor or the browser is exercised
NoDiagram ==
    /\ settings = MkSettings(MaxRadius, FloorWidth, FALSE, FALSE)
    /\ ref = None
    /\ cells = <<>>
    /\ canvas = UnplacedCanvas
    /\ scene = EmptyScene(TRUE)
    /\ last = NoCall

\* QutepartWrapper.__init__ under a skin, with Settings()['zoom'] = zoom;
\* marginZoom is the zoom last handed to the margins that have a zoomTo
QutepartWrapper(skin, zoom, hasMargin) ==
    LET marginPointSize == skin.lineNumFont
        mainAreaPointSize == skin.monoFont
    IN  [skin |-> skin,
         zoom |-> zoom,
         minZoom |-> (Min(marginPointSize, mainAreaPointSize) - 1) * (0 - 1),
         font |-> skin.monoFont,
         marginZoom |-> IF hasMargin THEN Some(0) ELSE None,
         call |-> "__init__", arg |-> None, emitted |-> None]

zoomTo_Unclamped(e, zoomVal0) ==
    [e EXCEPT !.font = e.skin.monoFont + zoomVal0,
              !.marginZoom = IF IsNone(@) THEN @ ELSE Some(zoomVal0)]

\* QutepartWrapper.zoomTo
zoomTo(e, zoomVal0) ==
    LET font == e.skin.monoFont
        zoomVal == Max(zoomVal0, e.minZoom)
        fontSize == font + zoomVal
    IN  [e EXCEPT !.font = fontSize,
                  !.marginZoom = IF IsNone(@) THEN @ ELSE Some(zoomVal)]

\* QutepartWrapper.onZoomIn; the signal waits for its slot
OnZoomIn ==
    /\ IsNone(editor.emitted) /\ editor.zoom < MaxZoom
    /\ editor' = [editor EXCEPT !.call = "onZoomIn", !.arg = None,
                                !.emitted = Some(editor.zoom + 1)]
    /\ UNCHANGED <<browser, settings, ref, cells, canvas, scene, last>>

\* QutepartWrapper.onZoomOut
OnZoomOut ==
    /\ IsNone(editor.emitted)
    /\ LET newZoom == editor.zoom - 1
       IN  editor' = [editor EXCEPT
                        !.call = "onZoomOut", !.arg = None,
                        !.emitted = IF newZoom >= editor.minZoom
                                    THEN Some(newZoom) ELSE None]
    /\ UNCHANGED <<browser, settings, ref, cells, canvas, scene, last>>

\* editor.zoomTo(zoomVal)
ZoomTo(zoomVal) ==
    /\ IsNone(editor.emitted)
    /\ editor' = [zoomTo(editor, zoomVal) EXCEPT !.call = "zoomTo",
                                                 !.arg = Some(zoomVal)]
    /\ UNCHANGED <<browser, settings, ref, cells, canvas, scene, last>>

\* The slot of sigTextEditorZoom: the value is stored in the settings and
\* the editor is zoomed to it
OnTextEditorZoom ==
    /\ ~IsNone(editor.emitted)
    /\ LET zoomVal == Val(editor.emitted)
       IN  editor' = [zoomTo(editor, zoomVal) EXCEPT
                        !.zoom = zoomVal, !.call = "zoomTo",
                        !.arg = Some(zoomVal), !.emitted = None]
    /\ UNCHANGED <<browser, settings, ref, cells, canvas, scene, last>>

InitZoom ==
    /\ NoDiagram
    /\ \E lineNumFont \in FontSizes, monoFont \in FontSizes,
          zoom \in ZoomVals, hasMargin \in BOOLEAN :
            editor = QutepartWrapper([lineNumFont |-> lineNumFont,
                                      monoFont |-> monoFont], zoom, hasMargin)
    /\ browser = None

NextZoom ==
    \/ OnZoomIn
    \/ OnZoomOut
    \/ \E zoomVal \in ZoomVals : ZoomTo(zoomVal)
    \/ OnTextEditorZoom

SpecZoom == InitZoom /\ [][NextZoom]_vars

\* C29: the zoom the editor applies is never below
\* minZoom = -(min(margin font size, main font size) - 1): onZoomOut emits only
\* a value that is at least minZoom, zoomTo raises its argument to minZoom, so
\* the point sizes of the editor font and of the margin font are at least 1
C29_ZoomFloor ==
    /\ editor.minZoom =
            0 - (Min(editor.skin.lineNumFont, editor.skin.monoFont) - 1)
    /\ editor.font - editor.skin.monoFont >= editor.minZoom
    /\ editor.font >= 1
    /\ ~IsNone(editor.marginZoom) =>
            /\ Val(editor.marginZoom) >= editor.minZoom
            /\ editor.skin.lineNumFont + Val(editor.marginZoom) >= 1
    /\ (editor.call = "onZoomOut" /\ ~IsNone(editor.emitted)) =>
            Val(editor.emitted) >= editor.minZoom
    /\ editor.call = "zoomTo" =>
            editor.font = editor.skin.monoFont
                            + Max(Val(editor.arg), editor.minZoom)

\* zoomTo was given a value below the floor of a skin whose fonts differ and
\* the margin was zoomed with the editor
C29_Witness ==
    /\ editor.call = "zoomTo"
    /\ Val(editor.arg) < editor.minZoom
    /\ editor.minZoom < 0
    /\ editor.skin.lineNumFont # editor.skin.monoFont
    /\ editor.marginZoom = Some(editor.minZoom)

\* ---------------------------------------------------- the variables browser
MaxOpen == 3

\* The texts of column 0 are numbered in their sorting order; the variable 1
\* is a global one, the variable 2 a local one
TopNames == {1, 2}
ChildNames == {1}
isGlobal(name) == name = 1

\* An item of the tree is known by its path from the top
TreePaths == { <<n>> : n \in TopNames } \cup { <<1, k>> : k \in ChildNames }

\* A new item: a VariableItem is populated from the start, a special one is
\* not before it is expanded
NewItems == { [populated |-> pop, expanded |-> FALSE] : pop \in BOOLEAN }

\* VariablesBrowser.__buildTreePath
buildTreePath(path) == path

\* VariablesBrowser.__findItem(slist, 0)
findItem(tree, slist) ==
    IF slist \in DOMAIN tree THEN Some(slist) ELSE None

\* The order of sorted() on lists of texts
RECURSIVE PathLess(_, _)
PathLess(p, q) ==
    IF p = <<>> THEN q # <<>>
    ELSE IF q = <<>> THEN FALSE
    ELSE IF Head(p) # Head(q) THEN Head(p) < Head(q)
    ELSE PathLess(Tail(p), Tail(q))

RECURSIVE Insert(_, _)
Insert(p, seq) ==
    IF seq = <<>> THEN <<p>>
    ELSE IF PathLess(Head(seq), p) THEN <<Head(seq)>> \o Insert(p, Tail(seq))
    ELSE <<p>> \o seq

RECURSIVE sorted(_)
sorted(seq) == IF seq = <<>> THEN <<>> ELSE Insert(Head(seq), sorted(Tail(seq)))

\* list.remove(x): the first occurrence goes
RECURSIVE Remove(_, _)
Remove(seq, x) ==
    IF seq = <<>> THEN <<>>
    ELSE IF Head(seq) = x THEN Tail(seq)
    ELSE <<Head(seq)>> \o Remove(Tail(seq), x)

Contains(seq, x) == \E i \in DOMAIN seq : seq[i] = x

\* The tree with a new item at `path`
AddTreeItem(tree, path, item) ==
    [q \in DOMAIN tree \cup {path} |-> IF q = path THEN item ELSE tree[q]]

\* VariablesBrowser.__init__
VariablesBrowser ==
    [tree |-> <<>>, openItems |-> <<>>,
     call |-> [op |-> "__init__", path |-> <<>>, exc |-> ""],
     before |-> <<>>]

\* VariablesBrowser.expandItem: the path is recorded, an item that is not
\* populated yet is asked to expand
expandItem(b, parentItem) ==
    LET pathList == buildTreePath(parentItem)
        b1 == [b EXCEPT !.openItems = Append(@, pathList)]
    IN  IF b.tree[parentItem].populated THEN b1
        ELSE [b1 EXCEPT !.tree[parentItem].populated = TRUE]

\* VariablesBrowser.collapseItem
collapseItem(b, parentItem) ==
    LET pathList == buildTreePath(parentItem)
    IN  IF ~Contains(b.openItems, pathList)
        THEN [b EXCEPT !.call.exc = "ValueError"]
        ELSE [b EXCEPT !.openItems = Remove(@, pathList),
                       !.tree[parentItem].expanded = FALSE]

Reexpand_FoundOnly(b, openItems) ==
    [b EXCEPT !.openItems = SelectSeq(openItems,
                                      LAMBDA q : q \in DOMAIN b.tree)]

\* The loop that re-expands the tree in showVariables
RECURSIVE Reexpand(_, _)
Reexpand(b, openItems) ==
    IF openItems = <<>> THEN b
    ELSE LET itemPath == Head(openItems)
             itm == findItem(b.tree, itemPath)
             b1 == IF ~IsNone(itm) THEN expandItem(b, Val(itm))
                   ELSE [b EXCEPT !.openItems = Append(@, itemPath)]
         IN  Reexpand(b1, Tail(openItems))

\* The top level items of one scope are taken out of the tree
clearScopeVariables(tree, areGlobals) ==
    [q \in { r \in DOMAIN tree : isGlobal(r[1]) # areGlobals } |-> tree[q]]

RECURSIVE AddAll(_, _, _)
AddAll(tree, parent, vlist) ==
    IF vlist = <<>> THEN tree
    ELSE AddAll(AddTreeItem(tree, parent \o <<Head(vlist).var>>, Head(vlist).item),
                parent, Tail(vlist))

\* VariablesBrowser.showVariables
showVariables(b, areGlobals, vlist) ==
    LET tree1 == clearScopeVariables(b.tree, areGlobals)
    IN  IF Len(vlist) > 0
        THEN LET tree2 == AddAll(tree1, <<>>, vlist)
                 openItems == sorted(b.openItems)
             IN  Reexpand([b EXCEPT !.tree = tree2, !.openItems = <<>>],
                          openItems)
        ELSE [b EXCEPT !.tree = tree1]

\* The loop that re-expands the tree in showVariable
RECURSIVE ReexpandQuiet(_, _)
ReexpandQuiet(b, openItems) ==
    IF openItems = <<>> THEN b
    ELSE LET itemPath == Head(openItems)
             item == findItem(b.tree, itemPath)
             b1 == IF ~IsNone(item) /\ ~b.tree[Val(item)].expanded
                   THEN IF b.tree[Val(item)].populated
                        THEN [b EXCEPT !.tree[Val(item)].expanded = TRUE]
                        ELSE expandItem(b, Val(item))
                   ELSE b
         IN  ReexpandQuiet(b1, Tail(openItems))

\* VariablesBrowser.showVariable: vlist[0] is the path of the parent
showVariable(b, parent, vlist) ==
    LET tree1 == AddAll(b.tree, parent, vlist)
        openItems == sorted(b.openItems)
        b1 == ReexpandQuiet([b EXCEPT !.tree = tree1, !.openItems = <<>>],
                            openItems)
    IN  [b1 EXCEPT !.openItems = openItems]

\* VariablesBrowser.clear
clear(b) == [b EXCEPT !.openItems = <<>>, !.tree = <<>>]

Called(b, op, path) ==
    [b EXCEPT !.call = [op |-> op, path |-> path, exc |-> ""],
              !.before = b.openItems]

\* The item is expanded in the view and the itemExpanded signal arrives
ExpandItem(path) ==
    /\ path \in DOMAIN browser.tree
    /\ Len(browser.openItems) < MaxOpen
    /\ browser' = [expandItem(Called(browser, "expandItem", path), path)
                        EXCEPT !.tree[path].expanded = TRUE]
    /\ UNCHANGED <<editor, settings, ref, cells, canvas, scene, last>>

CollapseItem(path) ==
    /\ path \in DOMAIN browser.tree
    /\ browser' = collapseItem(Called(browser, "collapseItem", path), path)
    /\ UNCHANGED <<editor, settings, ref, cells, canvas, scene, last>>

\* The variables the debugger reports for one scope
ScopeLists(areGlobals) ==
    {<<>>} \cup { <<[var |-> n, item |-> i]>> :
                    n \in { m \in TopNames : isGlobal(m) = areGlobals },
                    i \in NewItems }

ShowVariables(areGlobals, vlist) ==
    /\ browser' = showVariables(Called(browser, "showVariables", <<>>),
                                areGlobals, vlist)
    /\ UNCHANGED <<editor, settings, ref, cells, canvas, scene, last>>

\* The children the debugger reports for the variable at `parent`
ShowVariable(parent, vlist) ==
    /\ parent \in DOMAIN browser.tree
    /\ \A i \in DOMAIN vlist : (parent \o <<vlist[i].var>>) \in TreePaths
    /\ browser' = showVariable(Called(browser, "showVariable", parent),
                               parent, vlist)
    /\ UNCHANGED <<editor, settings, ref, cells, canvas, scene, last>>

Clear ==
    /\ browser' = clear(Called(browser, "clear", <<>>))
    /\ UNCHANGED <<editor, settings, ref, cells, canvas, scene, last>>

InitBrowser ==
    /\ NoDiagram
    /\ editor = None
    /\ browser = VariablesBrowser

NextBrowser ==
    \/ \E path \in TreePaths : ExpandItem(path)
    \/ \E path \in TreePaths : CollapseItem(path)
    \/ \E areGlobals \in BOOLEAN :
        \E vlist \in ScopeLists(areGlobals) : ShowVariables(areGlobals, vlist)
    \/ \E parent \in TreePaths :
        \E vlist \in {<<>>} \cup { <<[var |-> k, item |-> i]>> :
                                    k \in ChildNames, i \in NewItems } :
            ShowVariable(parent, vlist)
    \/ Clear

SpecBrowser == InitBrowser /\ [][NextBrowser]_vars

\* How often the path is in the list
RECURSIVE Count(_, _)
Count(seq, x) ==
    IF seq = <<>> THEN 0
    ELSE (IF Head(seq) = x THEN 1 ELSE 0) + Count(Tail(seq), x)

SamePaths(s1, s2) == \A q \in TreePaths : Count(s1, q) = Count(s2, q)

\* C30: a path leaves openItems only by collapseItem of its item or by
\* clear(); showVariables and showVariable leave openItems holding the same
\* paths; expandItem followed by collapseItem of the same item leaves openItems
\* holding what it held before the two calls
C30_OpenItemsKept ==
    [][/\ browser'.call.op \in {"showVariables", "showVariable"} =>
            SamePaths(browser'.openItems, browser.openItems)
       /\ \A q \in TreePaths :
            Count(browser'.openItems, q) < Count(browser.openItems, q) =>
                \/ browser'.call.op = "clear"
                \/ /\ browser'.call.op = "collapseItem"
                   /\ browser'.call.path = q
       /\ (/\ browser.call.op = "expandItem"
           /\ browser'.call.op = "collapseItem"
           /\ browser'.call.path = browser.call.path) =>
                /\ browser'.call.exc = ""
                /\ SamePaths(browser'.openItems, browser.before)]_vars

\* showVariables has run while a recorded path had no item in the tree and
\* another one had: both are still recorded
C30_Witness ==
    /\ browser.call.op = "showVariables"
    /\ \E q \in TreePaths :
        Contains(browser.openItems, q) /\ q \notin DOMAIN browser.tree
    /\ \E q \in TreePaths :
        Contains(browser.openItems, q) /\ q \in DOMAIN browser.tree
    /\ browser.openItems # browser.before

====
